---- MODULE Spec2Model ----
(***************************************************************************)
(* Model of the Neon n8n node: the statement builders of the select,       *)
(* insert, update, delete and executeQuery operations and the batch runner *)
(* that executes the built statements under the query modes 'single',      *)
(* 'transaction' and 'independently'.                                      *)
(*                                                                         *)
(* A statement text is a sequence of tokens.  A token is a literal piece   *)
(* of SQL ("lit"), a piece of caller-supplied text spliced into the        *)
(* statement ("raw"), or a placeholder $n with its pg-promise filter:      *)
(* "name" for $n:name, "csv" for $n:csv, "val" for a bare $n.              *)
(* A parameter is tagged with what the code pushed: an identifier ("id"),  *)
(* a list of identifiers ("idlist"), a data value ("val") or a whole item  *)
(* object ("obj": v holds its keys, w its values).                         *)
(***************************************************************************)
EXTENDS Integers, Sequences, FiniteSets, TLC

\* ------------------------------------------------------------------------
\* Bounds of the model
\* ------------------------------------------------------------------------
MaxItems == 3
MaxRows == 1
MaxWhere == 2
MaxSort == 1

\* ------------------------------------------------------------------------
\* Tokens and parameters
\* ------------------------------------------------------------------------
Lit(s) == [k |-> "lit", s |-> s, n |-> 0]
Raw(s) == [k |-> "raw", s |-> s, n |-> 0]
Ph(kind, idx) == [k |-> kind, s |-> "", n |-> idx]

IdP(name) == [k |-> "id", v |-> <<name>>, w |-> <<>>]
IdListP(names) == [k |-> "idlist", v |-> names, w |-> <<>>]
ValP(x) == [k |-> "val", v |-> <<x>>, w |-> <<>>]
ObjP(keys, vals) == [k |-> "obj", v |-> keys, w |-> vals]

SeqsUpTo(S, L) == UNION {[1..k -> S] : k \in 0..L}

RECURSIVE Concat(_)
Concat(ss) == IF ss = <<>> THEN <<>> ELSE Head(ss) \o Concat(Tail(ss))

Includes(s, x) == \E j \in 1..Len(s) : s[j] = x

\* join(parts, sep): the parts (token sequences) separated by the token sep
RECURSIVE Join(_, _)
Join(parts, sep) ==
    IF parts = <<>> THEN <<>>
    ELSE IF Len(parts) = 1 THEN Head(parts)
    ELSE Head(parts) \o <<sep>> \o Join(Tail(parts), sep)

\* Values a JavaScript Number() conversion maps to a number (not NaN)
NumericStrs == {"5", "7"}
IsNumeric(x) == x \in NumericStrs

NoErr == [kind |-> "none", msg |-> "", itemIndex |-> -1, entry |-> 0]
Err(kind, msg, itemIndex, entry) ==
    [kind |-> kind, msg |-> msg, itemIndex |-> itemIndex, entry |-> entry]

Built(query, values) == [ok |-> TRUE, query |-> query, values |-> values, err |-> NoErr]
Failed(e) == [ok |-> FALSE, query |-> <<>>, values |-> <<>>, err |-> e]

\* ------------------------------------------------------------------------
\* Caller-supplied values
\* ------------------------------------------------------------------------
NULL == "<null>"
UNDEF == "<undefined>"

\* A JavaScript object with string keys: keys in insertion order, vals aligned
Obj(keys, vals) == [keys |-> keys, vals |-> vals]
EmptyObj == Obj(<<>>, <<>>)
HasKey(o, key) == Includes(o.keys, key)
KeyPos(o, key) == CHOOSE j \in 1..Len(o.keys) : o.keys[j] = key
Get(o, key) == IF HasKey(o, key) THEN o.vals[KeyPos(o, key)] ELSE UNDEF
Put(o, key, val) ==
    IF HasKey(o, key)
    THEN Obj(o.keys, [o.vals EXCEPT ![KeyPos(o, key)] = val])
    ELSE Obj(Append(o.keys, key), Append(o.vals, val))

\* ------------------------------------------------------------------------
\* helpers/utils.ts
\* ------------------------------------------------------------------------
NumericOps == {">", "<", ">=", "<="}
NullOps == {"IS NULL", "IS NOT NULL"}
ValueOps == {"equal", "!=", "LIKE", ">", "<", ">=", "<="}

SqlOp(operator) == IF operator = "equal" THEN "=" ELSE operator

\* buildWhereClause, one condition of the loop: its text, or <<>> when skipped
LegacyCondition(c, paramIndex) ==
    IF c.column = "" THEN <<>>
    ELSE IF c.condition \in ValueOps
         THEN <<Raw(c.column), Lit(SqlOp(c.condition)), Ph("val", paramIndex)>>
    ELSE IF c.condition \in NullOps
         THEN <<Raw(c.column), Lit(c.condition)>>
    ELSE <<>>

LegacyTakesValue(c) == c.column # "" /\ c.condition \in ValueOps

\* the conditions array and the values array built by the loop
RECURSIVE LegacyConditions(_, _)
LegacyConditions(cs, paramIndex) ==
    IF cs = <<>> THEN [conditions |-> <<>>, values |-> <<>>]
    ELSE LET c == Head(cs)
             rest == LegacyConditions(Tail(cs),
                        IF LegacyTakesValue(c) THEN paramIndex + 1 ELSE paramIndex)
             text == LegacyCondition(c, paramIndex)
         IN [conditions |-> IF text = <<>> THEN rest.conditions
                            ELSE <<text>> \o rest.conditions,
             values |-> IF LegacyTakesValue(c) THEN <<ValP(c.value)>> \o rest.values
                        ELSE rest.values]

buildWhereClause(whereParams) ==
    IF whereParams.values = <<>> THEN [clause |-> <<>>, values |-> <<>>]
    ELSE LET r == LegacyConditions(whereParams.values, 1)
             combineOperator == IF whereParams.combineConditions = "" THEN "AND"
                                ELSE whereParams.combineConditions
         IN IF r.conditions = <<>> THEN [clause |-> <<>>, values |-> <<>>]
            ELSE [clause |-> <<Lit("WHERE")>> \o Join(r.conditions, Raw(combineOperator)),
                  values |-> r.values]

RECURSIVE LegacyOrders(_)
LegacyOrders(rules) ==
    IF rules = <<>> THEN <<>>
    ELSE LET r == Head(rules)
         IN (IF r.column = "" THEN <<>>
             ELSE << <<Raw(r.column),
                       IF r.direction = "" THEN Lit("ASC") ELSE Raw(r.direction)>> >>)
            \o LegacyOrders(Tail(rules))

buildSortClause(sortParams) ==
    IF sortParams = <<>> THEN <<>>
    ELSE LET orders == LegacyOrders(sortParams)
         IN IF orders = <<>> THEN <<>>
            ELSE <<Lit("ORDER BY")>> \o Join(orders, Lit(","))

buildSelectColumns(outputColumns) ==
    IF outputColumns = <<>> THEN <<Lit("*")>>
    ELSE Join([j \in 1..Len(outputColumns) |-> <<Raw(outputColumns[j])>>], Lit(","))

\* variants of shouldContinueOnFail with a wrong switch case
shouldContinueOnFail_Never(executionMode) == FALSE

shouldContinueOnFail_Tx(executionMode) ==
    executionMode \in {"independently", "transaction"}

shouldContinueOnFail(executionMode) ==
    CASE executionMode = "independently" -> TRUE
      [] executionMode = "transaction" -> FALSE
      [] executionMode = "single" -> FALSE
      [] OTHER -> FALSE

\* convertValuesToObject: later entries overwrite earlier ones with the same column
RECURSIVE convertValuesToObjectFrom(_, _)
convertValuesToObjectFrom(acc, values) ==
    IF values = <<>> THEN acc
    ELSE convertValuesToObjectFrom(Put(acc, Head(values).column, Head(values).value),
                                   Tail(values))

convertValuesToObject(values) == convertValuesToObjectFrom(EmptyObj, values)

\* checkItemAgainstSchema: the schema lookup built by the reduce
SchemaHas(columnsInfo, key) ==
    \E j \in 1..Len(columnsInfo) : columnsInfo[j].column_name = key

\* a later column of the same name overwrites an earlier one in the reduce
SchemaNullable(columnsInfo, key) ==
    LET j == CHOOSE x \in 1..Len(columnsInfo) :
                 /\ columnsInfo[x].column_name = key
                 /\ \A y \in (x + 1)..Len(columnsInfo) : columnsInfo[y].column_name # key
    IN columnsInfo[j].is_nullable = "YES"

\* variant of CheckKeys that passes over a key the schema does not have
RECURSIVE CheckKeys_SkipUnknown(_, _, _, _)
CheckKeys_SkipUnknown(item, columnsInfo, index, j) ==
    IF j > Len(item.keys) THEN NoErr
    ELSE LET key == item.keys[j]
         IN IF ~SchemaHas(columnsInfo, key)
            THEN CheckKeys_SkipUnknown(item, columnsInfo, index, j + 1)
            ELSE IF item.vals[j] = NULL /\ ~SchemaNullable(columnsInfo, key)
            THEN Err("validation", "is not nullable", index, j)
            ELSE CheckKeys_SkipUnknown(item, columnsInfo, index, j + 1)

RECURSIVE CheckKeys(_, _, _, _)
CheckKeys(item, columnsInfo, index, j) ==
    IF j > Len(item.keys) THEN NoErr
    ELSE LET key == item.keys[j]
         IN IF ~SchemaHas(columnsInfo, key)
            THEN Err("validation", "does not exist in selected table", index, j)
            ELSE IF item.vals[j] = NULL /\ ~SchemaNullable(columnsInfo, key)
            THEN Err("validation", "is not nullable", index, j)
            ELSE CheckKeys(item, columnsInfo, index, j + 1)

\* variant of checkItemAgainstSchema without the return for an empty schema
checkItemAgainstSchema_NoShortcut(item, columnsInfo, index) ==
    CheckKeys(item, columnsInfo, index, 1)

\* the error thrown, NoErr when the item is returned
checkItemAgainstSchema(item, columnsInfo, index) ==
    IF columnsInfo = <<>> THEN NoErr
    ELSE CheckKeys(item, columnsInfo, index, 1)

\* addWhereClauses (helpers/utils of the operations, not among the sources):
\* each clause becomes `$n:name <operator> $n+1`, the null checks without the
\* value; clauses are joined by the one configured combinator, none after the
\* last; a numeric operator with a non-numeric value fails, naming the entry.
RECURSIVE WhereClausesFrom(_, _, _, _)
WhereClausesFrom(clauses, j, replacementIndex, combineWith) ==
    IF j > Len(clauses) THEN [text |-> <<>>, values |-> <<>>]
    ELSE LET clause == clauses[j]
             takesValue == clause.condition \notin NullOps
             rest == WhereClausesFrom(clauses, j + 1,
                        replacementIndex + (IF takesValue THEN 2 ELSE 1), combineWith)
         IN [text |-> <<Ph("name", replacementIndex), Lit(SqlOp(clause.condition))>>
                      \o (IF takesValue THEN <<Ph("val", replacementIndex + 1)>> ELSE <<>>)
                      \o (IF j = Len(clauses) THEN <<>> ELSE <<Lit(combineWith)>>)
                      \o rest.text,
             values |-> <<IdP(clause.column)>>
                        \o (IF takesValue THEN <<ValP(clause.value)>> ELSE <<>>)
                        \o rest.values]

BadNumber(clause) == clause.condition \in NumericOps /\ ~IsNumeric(clause.value)

addWhereClauses(itemIndex, query, clauses, replacements, combineConditions) ==
    IF clauses = <<>> THEN Built(query, replacements)
    ELSE IF \E j \in 1..Len(clauses) : BadNumber(clauses[j])
    THEN LET entry == CHOOSE j \in 1..Len(clauses) :
                          /\ BadNumber(clauses[j])
                          /\ \A x \in 1..(j - 1) : ~BadNumber(clauses[x])
         IN Failed(Err("validation", "is not a number", itemIndex, entry))
    ELSE LET combineWith == IF combineConditions = "OR" THEN "OR" ELSE "AND"
             r == WhereClausesFrom(clauses, 1, Len(replacements) + 1, combineWith)
         IN Built(query \o <<Lit("WHERE")>> \o r.text, replacements \o r.values)

\* addSortRules (not among the sources): each rule becomes `$n:name ASC|DESC`,
\* comma-joined in input order; any direction other than DESC is ASC.
RECURSIVE SortRulesFrom(_, _, _)
SortRulesFrom(rules, j, replacementIndex) ==
    IF j > Len(rules) THEN [text |-> <<>>, values |-> <<>>]
    ELSE LET rest == SortRulesFrom(rules, j + 1, replacementIndex + 1)
         IN [text |-> <<Ph("name", replacementIndex),
                        Lit(IF rules[j].direction = "DESC" THEN "DESC" ELSE "ASC")>>
                      \o (IF j = Len(rules) THEN <<>> ELSE <<Lit(",")>>)
                      \o rest.text,
             values |-> <<IdP(rules[j].column)>> \o rest.values]

addSortRules(query, rules, replacements) ==
    IF rules = <<>> THEN Built(query, replacements)
    ELSE LET r == SortRulesFrom(rules, 1, Len(replacements) + 1)
         IN Built(query \o <<Lit("ORDER BY")>> \o r.text, replacements \o r.values)

\* ------------------------------------------------------------------------
\* actions/common.description.ts
\* ------------------------------------------------------------------------
\* variant of addReturning whose placeholder index is the old length
addReturning_OldLength(query, outputColumns, replacements) ==
    IF Includes(outputColumns, "*")
    THEN [query |-> query \o <<Lit("RETURNING *")>>, values |-> replacements]
    ELSE [query |-> query \o <<Lit("RETURNING"), Ph("name", Len(replacements))>>,
          values |-> Append(replacements, IdListP(outputColumns))]

addReturning(query, outputColumns, replacements) ==
    IF Includes(outputColumns, "*")
    THEN [query |-> query \o <<Lit("RETURNING *")>>, values |-> replacements]
    ELSE [query |-> query \o <<Lit("RETURNING"), Ph("name", Len(replacements) + 1)>>,
          values |-> Append(replacements, IdListP(outputColumns))]

\* ------------------------------------------------------------------------
\* The statement each operation builds for one input record.
\* P holds the node parameters read for the record, O the node options.
\* ------------------------------------------------------------------------
TargetOf(schema, table) == <<Ph("name", 1), Lit("."), Ph("name", 2)>>
LegacyTarget(schema, table) == <<Raw(schema), Lit("."), Raw(table)>>

\* select.operation.ts, first variant: parameters of item 0, names spliced
SelectLegacyBuild(schema, table, P) ==
    IF schema = "" \/ table = ""
    THEN Failed(Err("operation", "Schema and table are required", -1, 0))
    ELSE LET columns == buildSelectColumns(P.outputColumns)
             w == buildWhereClause([values |-> P.where, combineConditions |-> P.combine])
             sortClause == buildSortClause(P.sort)
         IN Built(<<Lit("SELECT")>> \o columns \o <<Lit("FROM")>>
                    \o LegacyTarget(schema, table) \o w.clause \o sortClause,
                  w.values)

\* select.operation.ts, second variant
SelectBuild(schema, table, P, index) ==
    LET wildcard == Includes(P.outputColumns, "*")
        values0 == IF wildcard THEN <<IdP(schema), IdP(table)>>
                   ELSE <<IdP(schema), IdP(table), IdListP(P.outputColumns)>>
        query0 == IF wildcard
                  THEN <<Lit("SELECT * FROM")>> \o TargetOf(schema, table)
                  ELSE <<Lit("SELECT"), Ph("name", Len(values0)), Lit("FROM")>>
                       \o TargetOf(schema, table)
        w == addWhereClauses(index, query0, P.where, values0, P.combine)
    IN IF ~w.ok THEN w
       ELSE LET s == IF Len(P.sort) > 0 THEN addSortRules(w.query, P.sort, w.values)
                     ELSE w
            IN IF P.returnAll THEN s
               ELSE Built(s.query \o <<Lit("LIMIT"), Raw(P.limit)>>, s.values)

\* insert.operation.ts:127-161
InsertItem(P) ==
    IF P.mappingMode = "autoMapInputData" THEN P.json
    ELSE IF P.mappingMode = "defineBelow" /\ P.valuesToSend.present
    THEN convertValuesToObject(P.valuesToSend.values)
    ELSE EmptyObj

InsertBuild(schema, table, P, O, tableSchema, index) ==
    LET onConflict == IF O.skipOnConflict THEN <<Lit("ON CONFLICT DO NOTHING")>> ELSE <<>>
        query == <<Lit("INSERT INTO")>> \o TargetOf(schema, table)
                 \o <<Lit("("), Ph("name", 3), Lit(") VALUES("), Ph("csv", 3), Lit(")")>>
                 \o onConflict
        item == InsertItem(P)
        e == checkItemAgainstSchema(item, tableSchema, index)
        values == <<IdP(schema), IdP(table), ObjP(item.keys, item.vals)>>
    IN IF e # NoErr THEN Failed(e)
       ELSE IF item.keys = <<>>
       THEN Built(<<Lit("INSERT INTO")>> \o TargetOf(schema, table)
                    \o <<Lit("DEFAULT VALUES RETURNING *")>>, values)
       ELSE Built(query \o <<Lit("RETURNING *")>>, values)

\* delete.operation.ts:224-237, the update of the first variant: SET from the
\* keys of the data, WHERE from buildWhereClause (which numbers from $1 again)
RECURSIVE LegacySet(_, _)
LegacySet(keys, j) ==
    IF j > Len(keys) THEN <<>>
    ELSE << <<Raw(keys[j]), Lit("="), Ph("val", j)>> >> \o LegacySet(keys, j + 1)

UpdateLegacyData(P) == IF P.dataToSend.present THEN P.dataToSend.fields ELSE P.json

\* P0 holds the parameters of item 0, P the json of the item being processed
UpdateLegacyBuild(schema, table, P0, P) ==
    LET data == UpdateLegacyData([P0 EXCEPT !.json = P.json])
        setClause == Join(LegacySet(data.keys, 1), Lit(","))
        w == buildWhereClause([values |-> P0.where, combineConditions |-> P0.combine])
    IN IF schema = "" \/ table = ""
       THEN Failed(Err("operation", "Schema and table are required", -1, 0))
       ELSE IF w.clause = <<>>
       THEN Failed(Err("operation", "WHERE clause is required", -1, 0))
       ELSE Built(<<Lit("UPDATE")>> \o LegacyTarget(schema, table) \o <<Lit("SET")>>
                    \o setClause \o w.clause \o <<Lit("RETURNING *")>>,
                  [j \in 1..Len(data.vals) |-> ValP(data.vals[j])] \o w.values)

\* delete.operation.ts:47-62, the delete of the first variant
DeleteLegacyBuild(schema, table, P) ==
    IF schema = "" \/ table = ""
    THEN Failed(Err("operation", "Schema and table are required", -1, 0))
    ELSE LET w == buildWhereClause([values |-> P.where, combineConditions |-> P.combine])
         IN IF w.clause = <<>>
            THEN Failed(Err("operation", "WHERE clause is required", -1, 0))
            ELSE Built(<<Lit("DELETE FROM")>> \o LegacyTarget(schema, table)
                         \o w.clause \o <<Lit("RETURNING *")>>,
                       w.values)

\* delete.operation.ts:341-455, the update of the second variant
RECURSIVE FallbackItem(_, _)
FallbackItem(acc, values) ==
    IF values = <<>> THEN acc
    ELSE LET val == Head(values)
         IN FallbackItem(IF val.column # "" /\ val.value # UNDEF
                         THEN Put(acc, val.column, val.value) ELSE acc,
                         Tail(values))

\* the item and the matching columns after the mapping mode and the fallback
UpdateMapped(P) ==
    LET item0 == IF P.mappingMode = "autoMapInputData" THEN P.json
                 ELSE IF P.mappingMode = "defineBelow" THEN P.columnsValue
                 ELSE EmptyObj
        matching0 == IF P.mappingMode \in {"autoMapInputData", "defineBelow"}
                     THEN P.matchingColumns ELSE <<>>
    IN IF matching0 = <<>> /\ P.mappingMode = "defineBelow" /\ P.valuesToUpdate.present
       THEN LET item1 == FallbackItem(EmptyObj, P.valuesToUpdate.values)
            IN [item |-> item1,
                matchingColumns |-> IF item1.keys # <<>> /\ item1.keys[1] # ""
                                    THEN <<item1.keys[1]>> ELSE <<>>]
       ELSE [item |-> item0, matchingColumns |-> matching0]

RECURSIVE Assignments(_, _, _, _)
Assignments(columns, item, j, valuesLength) ==
    IF j > Len(columns) THEN [text |-> <<>>, values |-> <<>>]
    ELSE LET rest == Assignments(columns, item, j + 1, valuesLength + 2)
         IN [text |-> << <<Ph("name", valuesLength), Lit("="), Ph("val", valuesLength + 1)>> >>
                      \o rest.text,
             values |-> <<IdP(columns[j]), ValP(Get(item, columns[j]))>> \o rest.values]

UpdateBuild(schema, table, P, tableSchema, i) ==
    LET m == UpdateMapped(P)
        item == m.item
        matchingColumns == m.matchingColumns
        e == checkItemAgainstSchema(item, tableSchema, i)
        updateColumns == SelectSeq(item.keys, LAMBDA c : ~Includes(matchingColumns, c))
        updates == Assignments(updateColumns, item, 1, 3)
        conditions == Assignments(matchingColumns, item, 1, 3 + 2 * Len(updateColumns))
        values == <<IdP(schema), IdP(table)>> \o updates.values \o conditions.values
        query == <<Lit("UPDATE")>> \o TargetOf(schema, table) \o <<Lit("SET")>>
                 \o Join(updates.text, Lit(",")) \o <<Lit("WHERE")>>
                 \o Join(conditions.text, Lit("AND"))
    IN IF matchingColumns = <<>> /\ P.mappingMode = "defineBelow"
       THEN Failed(Err("operation", "No matching columns specified", i, 0))
       ELSE IF e # NoErr THEN Failed(e)
       ELSE IF updateColumns = <<>>
       THEN Failed(Err("operation", "No columns to update specified", i, 0))
       ELSE IF Includes(P.outputColumns, "*")
       THEN Built(query \o <<Lit("RETURNING *")>>, values)
       ELSE IF Len(P.outputColumns) > 0
       THEN Built(query \o <<Lit("RETURNING"), Ph("name", Len(values) + 1)>>,
                  Append(values, IdListP(P.outputColumns)))
       ELSE Built(query, values)

\* part_000:108-164, the delete of the second variant
DeleteBuild(schema, table, P, O, i) ==
    LET values == <<IdP(schema), IdP(table)>>
        cascade == IF O.cascade THEN <<Lit("CASCADE")>> ELSE <<>>
        identity == IF P.restartSequences THEN <<Lit("RESTART IDENTITY")>> ELSE <<>>
        invalid == Failed(Err("operation", "Invalid delete command", i, 0))
    IN CASE P.deleteCommand = "drop" ->
              Built(<<Lit("DROP TABLE IF EXISTS")>> \o TargetOf(schema, table) \o cascade,
                    values)
         [] P.deleteCommand = "truncate" ->
              Built(<<Lit("TRUNCATE TABLE")>> \o TargetOf(schema, table)
                      \o identity \o cascade, values)
         [] P.deleteCommand = "delete" ->
              LET w == addWhereClauses(i, <<Lit("DELETE FROM")>> \o TargetOf(schema, table),
                                       P.where, values, P.combine)
              IN IF ~w.ok THEN w
                 ELSE IF w.query = <<>> THEN invalid
                 ELSE Built(w.query \o <<Lit("RETURNING *")>>, w.values)
         [] OTHER -> invalid

\* ------------------------------------------------------------------------
\* utils.ts:351-402, convertArraysToPostgresFormat.
\* A value of the data is a record: its typeof tag t ("array" for an array),
\* its text s and, for an array, its entries e.
\* ------------------------------------------------------------------------
JsVal(t, s, e) == [t |-> t, s |-> s, e |-> e]
JsUndefined == JsVal("undefined", "", <<>>)

\* jsonParse of n8n-workflow: JSON.parse, which throws on a text it rejects
jsonParse(text) ==
    CASE text = "[1,2]" -> JsVal("array", "", <<JsVal("number", "1", <<>>),
                                                JsVal("number", "2", <<>>)>>)
      [] text = "[]" -> JsVal("array", "", <<>>)
      [] text = "5" -> JsVal("number", "5", <<>>)
      [] OTHER -> JsVal("throw", text, <<>>)

\* the text one entry of the array contributes to the literal
ArrayEntry(entry) ==
    LET quoted(text) ==
            "\"" \o (IF text = "x\"y" THEN "x\\\"y" ELSE text) \o "\""
    IN CASE entry.t = "number" -> entry.s
         [] entry.t \in {"boolean", "object", "string"} -> quoted(entry.s)
         [] OTHER -> entry.s

\* `{${arrayEntries.join(',')}}`
RECURSIVE JoinEntries(_)
JoinEntries(entries) ==
    IF entries = <<>> THEN ""
    ELSE IF Len(entries) = 1 THEN ArrayEntry(entries[1])
    ELSE ArrayEntry(entries[1]) \o "," \o JoinEntries(Tail(entries))

\* the data after the loop over the schema from column j on, or the error
\* that ended it
RECURSIVE ConvertFrom(_, _, _, _)
ConvertFrom(data, schema, itemIndex, j) ==
    IF j > Len(schema) THEN [ok |-> TRUE, err |-> NoErr, data |-> data]
    ELSE LET columnInfo == schema[j]
             given == IF HasKey(data, columnInfo.column_name)
                      THEN data.vals[KeyPos(data, columnInfo.column_name)]
                      ELSE JsUndefined
             columnValue == IF given.t = "string" THEN jsonParse(given.s) ELSE given
         IN IF columnInfo.data_type \notin {"ARRAY", "array"}
            THEN ConvertFrom(data, schema, itemIndex, j + 1)
            ELSE IF columnValue.t = "throw"
            THEN [ok |-> FALSE, err |-> Err("json", "Unexpected token", -1, j),
                  data |-> data]
            ELSE IF columnValue.t = "array"
            THEN ConvertFrom(
                     Put(data, columnInfo.column_name,
                         JsVal("string", "{" \o JoinEntries(columnValue.e) \o "}", <<>>)),
                     schema, itemIndex, j + 1)
            ELSE IF columnInfo.is_nullable = "NO"
            THEN [ok |-> FALSE, err |-> Err("operation", "has to be an array", itemIndex, j),
                  data |-> data]
            ELSE ConvertFrom(data, schema, itemIndex, j + 1)

convertArraysToPostgresFormat(data, schema, itemIndex) ==
    ConvertFrom(data, schema, itemIndex, 1)

\* ------------------------------------------------------------------------
\* utils.ts:285-305, replaceEmptyStringsByNulls.
\* An item is a record holding the reference json of its json object; jsons
\* maps each reference to the object it denotes. The result is the array
\* returned and the objects as they are after the call.
\* ------------------------------------------------------------------------
replaceEmptyStringsByNulls(items, replace, jsons) ==
    IF ~replace THEN [items |-> items, jsons |-> jsons]
    ELSE LET \* const newItem = { ...item }: a new item with the same json reference
             returnData == [k \in 1..Len(items) |-> [json |-> items[k].json]]
             touched == {returnData[k].json : k \in 1..Len(returnData)}
             \* newItem.json[key] = null for every key holding ''
             nulled(o) == Obj(o.keys, [j \in 1..Len(o.vals) |->
                                          IF o.vals[j] = "" THEN NULL ELSE o.vals[j]])
         IN [items |-> returnData,
             jsons |-> [r \in DOMAIN jsons |->
                          IF r \in touched THEN nulled(jsons[r]) ELSE jsons[r]]]

\* ------------------------------------------------------------------------
\* executeQuery.operation.ts:59-129
\* A string of comma-separated text is the sequence of its comma-separated
\* pieces; the empty string is the empty sequence.
\* ------------------------------------------------------------------------
Trim(entry) ==
    CASE entry = " 7 " -> "7"
      [] entry = " " -> ""
      [] OTHER -> entry

\* variant of stringToArray that keeps the empty entries
stringToArray_KeepEmpty(pieces) == [j \in 1..Len(pieces) |-> Trim(pieces[j])]

\* stringToArray: split(','), drop the empty entries, then trim
stringToArray(pieces) ==
    LET kept == SelectSeq(pieces, LAMBDA entry : entry # "")
    IN [j \in 1..Len(kept) |-> Trim(kept[j])]

\* the query with every {{ expression }} replaced by its evaluated text
ResolveQuery(query) ==
    [j \in 1..Len(query) |->
        IF query[j].k = "expr" THEN Raw(query[j].s) ELSE query[j]]

\* the quoted literals '$n' of the query, replaced from left to right by
\* placeholders numbered after the values, each adding the text $n as a value
RECURSIVE QuotedLiterals(_, _, _)
QuotedLiterals(query, j, nextValueIndex) ==
    IF j > Len(query) THEN [query |-> <<>>, values |-> <<>>]
    ELSE IF query[j].k = "qlit"
    THEN LET rest == QuotedLiterals(query, j + 1, nextValueIndex + 1)
         IN [query |-> <<Ph("val", nextValueIndex)>> \o rest.query,
             values |-> <<ValP(query[j].s)>> \o rest.values]
    ELSE LET rest == QuotedLiterals(query, j + 1, nextValueIndex)
         IN [query |-> <<query[j]>> \o rest.query, values |-> rest.values]

\* the value an expression of the parameter source evaluates to: its type and,
\* as a string, its comma-separated pieces
Evaluated(type, pieces) == [type |-> type, pieces |-> pieces]

\* the pieces joined by commas again: the string itself
RECURSIVE CommaText(_)
CommaText(pieces) ==
    IF pieces = <<>> THEN ""
    ELSE IF Len(pieces) = 1 THEN pieces[1]
    ELSE pieces[1] \o "," \o CommaText(Tail(pieces))

\* strings JSON.parse accepts
JSONTexts == {"5", " 7 ", "[1,2]"}

\* isJSON: a string that JSON.parse accepts
isJSON(evaluated) ==
    evaluated.type = "string" /\ CommaText(evaluated.pieces) \in JSONTexts

\* rawReplacements.replace(/^=+/, '')
StripEquals(pieces) ==
    IF pieces = <<>> THEN pieces
    ELSE [pieces EXCEPT ![1] = CASE @ = "=5" -> "5"
                                 [] @ = "={{ $json.a }}" -> "{{ $json.a }}"
                                 [] OTHER -> @]

\* executeQuery.operation.ts:79-104: the values of the parameter source
RECURSIVE ResolvedValues(_, _)
ResolvedValues(resolvables, j) ==
    IF j > Len(resolvables) THEN <<>>
    ELSE LET evaluatedExpression == resolvables[j]
             evaluatedValues ==
                 IF evaluatedExpression.type = "undefined" THEN <<>>
                 ELSE IF isJSON(evaluatedExpression)
                 THEN <<CommaText(evaluatedExpression.pieces)>>
                 ELSE stringToArray(evaluatedExpression.pieces)
         IN evaluatedValues \o ResolvedValues(resolvables, j + 1)

QueryValues(queryParameter) ==
    LET rawValues == StripEquals(queryParameter.pieces)
        strs == IF queryParameter.resolvables # <<>>
                THEN ResolvedValues(queryParameter.resolvables, 1)
                ELSE stringToArray(rawValues)
    IN [j \in 1..Len(strs) |-> ValP(strs[j])]

ExecuteQueryBuild(P, O, index) ==
    LET query == ResolveQuery(P.query)
        queryParameter == O.queryParameters
    IN IF queryParameter.type \notin {"string", "number"}
       THEN Failed(Err("operation", "Query Parameters must be a string", index, 0))
       ELSE LET values == QueryValues(queryParameter)
            IN IF queryParameter.pieces = <<>>
               THEN LET q == QuotedLiterals(query, 1, 1)
                    IN Built(q.query, q.values)
               ELSE Built(query, values)

\* ------------------------------------------------------------------------
\* Inputs: the node parameters of one record, the node options, the schema
\* ------------------------------------------------------------------------
Cond(column, condition, value) ==
    [column |-> column, condition |-> condition, value |-> value]
Rule(column, direction) == [column |-> column, direction |-> direction]
Pair(column, value) == [column |-> column, value |-> value]
Absent == [present |-> FALSE, values |-> <<>>]
Given(values) == [present |-> TRUE, values |-> values]
QLit(text) == [k |-> "qlit", s |-> text, n |-> 0]
Expr(evaluated) == [k |-> "expr", s |-> evaluated, n |-> 0]

DefaultP ==
    [outputColumns |-> <<"*">>, where |-> <<>>, combine |-> "AND", sort |-> <<>>,
     returnAll |-> TRUE, limit |-> "50", mappingMode |-> "autoMapInputData",
     json |-> EmptyObj, valuesToSend |-> Absent, columnsValue |-> EmptyObj,
     matchingColumns |-> <<>>, valuesToUpdate |-> Absent,
     dataToSend |-> [present |-> FALSE, fields |-> EmptyObj],
     deleteCommand |-> "truncate", restartSequences |-> FALSE, query |-> <<>>]

DefaultO ==
    [skipOnConflict |-> FALSE, cascade |-> FALSE,
     queryParameters |-> [type |-> "string", pieces |-> <<>>, resolvables |-> <<>>]]

Column(name, type, nullable) ==
    [column_name |-> name, data_type |-> type, is_nullable |-> nullable]

\* what information_schema.columns may return for the table
TableSchemas ==
    {<<>>, <<Column("a", "integer", "NO"), Column("b", "text", "YES")>>}

Schemas == {"public", "sx"}
Tables == {"events", "tx"}
Columns == {"a", "b"}

ModeOps == {"select", "insert", "update", "delete", "executeQuery"}
LegacyOps == {"selectV1", "updateV1", "deleteV1"}
Ops == ModeOps \cup LegacyOps
QueryModes == {"", "single", "transaction", "independently"}

Conds ==
    {Cond("a", "equal", "5"), Cond("b", ">", "7"), Cond("a", "<=", "abc"),
     Cond("b", "IS NULL", ""), Cond("a", "LIKE", "abc"), Cond("", "!=", "5"),
     Cond("b", "IS NOT NULL", "5")}
Rules == {Rule("a", "ASC"), Rule("b", "DESC"), Rule("a", ""), Rule("", "DESC")}
OutputColumnLists == {<<"*">>, <<"a">>, <<"a", "b">>, <<>>, <<"b", "*">>}
Objects ==
    {EmptyObj, Obj(<<"a">>, <<"5">>), Obj(<<"a", "b">>, <<"5", NULL>>),
     Obj(<<"b", "a">>, <<"abc", NULL>>), Obj(<<"zz">>, <<"5">>)}
PairLists ==
    {<<>>, <<Pair("a", "5")>>, <<Pair("a", "5"), Pair("b", "7")>>,
     <<Pair("a", "5"), Pair("a", "7")>>, <<Pair("", "5"), Pair("b", UNDEF)>>}
MatchingLists == {<<>>, <<"a">>, <<"a", "b">>, <<"c">>}
Queries ==
    {<<Lit("SELECT 1")>>,
     <<Lit("SELECT * FROM t WHERE x ="), Ph("val", 1)>>,
     <<Lit("SELECT * FROM t WHERE x ="), QLit("$1"), Lit("AND y ="), QLit("$2")>>,
     <<Lit("SELECT * FROM"), Expr("t"), Lit("WHERE x ="), Ph("val", 1),
       Lit("AND y ="), Ph("val", 2)>>}
QueryParameters ==
    {[type |-> "undefined", pieces |-> <<>>, resolvables |-> <<>>], [type |-> "string", pieces |-> <<>>, resolvables |-> <<>>],
     [type |-> "string", pieces |-> <<"5">>, resolvables |-> <<>>],
     [type |-> "string", pieces |-> <<"5", " 7 ">>, resolvables |-> <<>>],
     [type |-> "string", pieces |-> <<"abc", "", " ">>, resolvables |-> <<>>],
     [type |-> "number", pieces |-> <<"5">>, resolvables |-> <<>>],
     [type |-> "string", pieces |-> <<"=5", "7">>, resolvables |-> <<>>],
     [type |-> "string", pieces |-> <<"{{ $json.a }}", "x">>,
      resolvables |-> <<Evaluated("string", <<"[1", "2]">>)>>],
     [type |-> "string", pieces |-> <<"={{ $json.a }}", "{{ $json.b }}">>,
      resolvables |-> <<Evaluated("string", <<"abc", "", " 7 ">>),
                        Evaluated("number", <<"5">>)>>],
     [type |-> "string", pieces |-> <<"{{ $json.a }}{{ $json.b }}{{ $json.c }}">>,
      resolvables |-> <<Evaluated("undefined", <<>>), Evaluated("string", <<" 7 ">>),
                        Evaluated("string", <<>>)>>]}

\* every input the builders are applied to
BuildInputs(o) ==
    CASE o \in {"select", "selectV1"} ->
           {[DefaultP EXCEPT !.outputColumns = oc, !.where = w, !.combine = cb,
                             !.sort = st, !.returnAll = ra] :
              oc \in OutputColumnLists, w \in SeqsUpTo(Conds, MaxWhere),
              cb \in {"AND", "OR"}, st \in SeqsUpTo(Rules, MaxSort),
              ra \in BOOLEAN}
      [] o = "insert" ->
           {[DefaultP EXCEPT !.mappingMode = mm, !.json = j, !.valuesToSend = vs] :
              mm \in {"autoMapInputData", "defineBelow"}, j \in Objects,
              vs \in {Absent} \cup {Given(pl) : pl \in PairLists}}
      [] o = "update" ->
           {[DefaultP EXCEPT !.mappingMode = mm, !.json = j, !.columnsValue = j,
                             !.matchingColumns = mc, !.valuesToUpdate = vu,
                             !.outputColumns = oc] :
              mm \in {"autoMapInputData", "defineBelow"}, j \in Objects,
              mc \in MatchingLists,
              vu \in {Absent, Given(<<Pair("a", "5"), Pair("b", "7")>>)},
              oc \in OutputColumnLists}
      [] o = "updateV1" ->
           {[DefaultP EXCEPT !.json = j, !.dataToSend = ds, !.where = w,
                             !.combine = cb] :
              j \in Objects,
              ds \in {[present |-> FALSE, fields |-> EmptyObj],
                      [present |-> TRUE, fields |-> Obj(<<"b">>, <<"7">>)]},
              w \in SeqsUpTo(Conds, MaxWhere), cb \in {"", "OR"}}
      [] o = "delete" ->
           {[DefaultP EXCEPT !.deleteCommand = dc, !.restartSequences = rs,
                             !.where = w, !.combine = cb] :
              dc \in {"drop", "truncate", "delete", "purge"}, rs \in BOOLEAN,
              w \in SeqsUpTo(Conds, MaxWhere), cb \in {"AND", "OR"}}
      [] o = "deleteV1" ->
           {[DefaultP EXCEPT !.where = w, !.combine = cb] :
              w \in SeqsUpTo(Conds, MaxWhere), cb \in {"", "OR"}}
      [] o = "executeQuery" -> {[DefaultP EXCEPT !.query = q] : q \in Queries}

BuildOptions(o) ==
    CASE o = "insert" -> {[DefaultO EXCEPT !.skipOnConflict = sc] : sc \in BOOLEAN}
      [] o = "delete" -> {[DefaultO EXCEPT !.cascade = cs] : cs \in BOOLEAN}
      [] o = "executeQuery" ->
           {[DefaultO EXCEPT !.queryParameters = qp] : qp \in QueryParameters}
      [] OTHER -> {DefaultO}

\* the statement operation o builds for the record at position index (0-based);
\* P0 holds the parameters of the first record
BuildOf(o, schema, table, P0, P, O, tableSchema, index) ==
    CASE o = "select" -> SelectBuild(schema, table, P, index)
      [] o = "selectV1" -> SelectLegacyBuild(schema, table, P0)
      [] o = "insert" -> InsertBuild(schema, table, P, O, tableSchema, index)
      [] o = "update" -> UpdateBuild(schema, table, P, tableSchema, index)
      [] o = "updateV1" -> UpdateLegacyBuild(schema, table, P0, P)
      [] o = "delete" -> DeleteBuild(schema, table, P, O, index)
      [] o = "deleteV1" -> DeleteLegacyBuild(schema, table, P0)
      [] o = "executeQuery" -> ExecuteQueryBuild(P, O, index)

\* the inputs the batch runner is exercised with, per record
RunInputs(o) ==
    CASE o = "select" ->
           {DefaultP,
            [DefaultP EXCEPT !.outputColumns = <<"a">>, !.returnAll = FALSE,
                             !.where = <<Cond("a", "equal", "5")>>],
            [DefaultP EXCEPT !.where = <<Cond("a", "<=", "abc")>>]}
      [] o = "selectV1" ->
           {[DefaultP EXCEPT !.outputColumns = <<>>],
            [DefaultP EXCEPT !.outputColumns = <<"a">>,
                             !.where = <<Cond("a", "equal", "5")>>]}
      [] o = "insert" ->
           {[DefaultP EXCEPT !.json = Obj(<<"a">>, <<"5">>)],
            [DefaultP EXCEPT !.json = EmptyObj],
            [DefaultP EXCEPT !.json = Obj(<<"zz">>, <<"5">>)]}
      [] o = "update" ->
           {[DefaultP EXCEPT !.mappingMode = "defineBelow", !.matchingColumns = <<"a">>,
                             !.columnsValue = Obj(<<"a", "b">>, <<"5", "7">>)],
            [DefaultP EXCEPT !.matchingColumns = <<"b">>,
                             !.json = Obj(<<"a", "b">>, <<"5", "7">>)],
            [DefaultP EXCEPT !.mappingMode = "defineBelow",
                             !.columnsValue = Obj(<<"a">>, <<"5">>)]}
      [] o = "updateV1" ->
           {[DefaultP EXCEPT !.json = Obj(<<"a">>, <<"5">>),
                             !.where = <<Cond("b", "equal", "7")>>],
            [DefaultP EXCEPT !.json = Obj(<<"b">>, <<"7">>)]}
      [] o = "delete" ->
           {DefaultP,
            [DefaultP EXCEPT !.deleteCommand = "delete",
                             !.where = <<Cond("a", "equal", "5")>>],
            [DefaultP EXCEPT !.deleteCommand = "delete"],
            [DefaultP EXCEPT !.deleteCommand = "purge"]}
      [] o = "deleteV1" ->
           {DefaultP, [DefaultP EXCEPT !.where = <<Cond("a", "equal", "5")>>]}
      [] o = "executeQuery" ->
           {[DefaultP EXCEPT !.query = <<Lit("SELECT 1")>>],
            [DefaultP EXCEPT !.query = <<Lit("SELECT * FROM t WHERE x ="), QLit("$1")>>]}

RunOptions(o) ==
    CASE o = "executeQuery" ->
           {DefaultO,
            [DefaultO EXCEPT !.queryParameters = [type |-> "undefined", pieces |-> <<>>, resolvables |-> <<>>]]}
      [] OTHER -> {DefaultO}

\* number of rows a successful statement may return
ResultSizes == 0..MaxRows

\* ------------------------------------------------------------------------
\* State
\* ------------------------------------------------------------------------
VARIABLES
    op,          \* the operation entry point running
    queryMode,   \* nodeOptions.queryMode ("" when unset)
    options,     \* the other node options
    params,      \* params[k]: the node parameters and json of input item k
    tableSchema, \* the result of getTableSchema
    pc,          \* where the entry point is
    i,           \* loop index of the execution loop (1-based)
    queries,     \* the statements built so far
    results,     \* the value of `result` of each finished iteration
    returnData,  \* the rows pushed to returnData
    issued,      \* issued[k]: how often queries[k] was sent to the database
    inflight,    \* statements sent and not yet answered
    txOpen,      \* number of transactions begun and not yet ended
    txCount,     \* number of transactions begun
    applied,     \* statements whose effects are in the open transaction
    committed,   \* statements whose effects are committed
    pending,     \* outcome of the statement inside the open transaction
    outcome,     \* "running", "returned" or "error"
    error,       \* the error the entry point raised
    warnings,    \* statements for which console.warn was called
    bpc, bop, bschema, btable, bP, bO, bT, bres,  \* one application of a builder
    connectionPool, \* the module variable connectionPool of the transport
    handle,         \* what the last call of configureNeon was given and returned
    tpc,            \* where the credential test is
    credential,     \* the credential under test
    attempts,       \* test queries sent by the credential test under way
    testResult,     \* what the credential test returned, and the error behind it
    calls           \* calls of the transport made so far

runVars == <<op, queryMode, options, params, tableSchema, pc, i, queries, results,
             returnData, issued, inflight, txOpen, txCount, applied, committed,
             pending, outcome, error, warnings>>
buildVars == <<bpc, bop, bschema, btable, bP, bO, bT, bres>>
transportVars == <<connectionPool, handle, tpc, credential, attempts, testResult, calls>>
vars == <<runVars, buildVars, transportVars>>

NoPending == [ok |-> TRUE, rows |-> 0, set |-> FALSE]
NoError == [kind |-> "none", stmt |-> 0, itemIndex |-> -1, prefix |-> "", msg |-> ""]
NoBuild == Failed(NoErr)

\* the schema and table the runner's batches address
RunSchema == "public"
RunTable == "events"

Legacy(o) == o \in LegacyOps
N == Len(params)

\* variant of ExecutionMode with the wrong default
ExecutionMode_DefaultIndependent(qm) == IF qm = "" THEN "independently" ELSE qm

\* nodeOptions.queryMode || 'single'
ExecutionMode(qm) == IF qm = "" THEN "single" ELSE qm

\* the prefix the entry point's catch block puts before the message
Prefix(o) ==
    CASE o = "selectV1" -> "SELECT operation failed"
      [] o = "updateV1" -> "UPDATE operation failed"
      [] o = "deleteV1" -> "DELETE operation failed"
      [] o = "executeQuery" -> "Query execution failed"
      [] OTHER -> ""

\* connectionPool = null
NoPool == [set |-> FALSE, host |-> "", ssl |-> FALSE, keepAliveInitialDelayMillis |-> 0,
           largeNumbers |-> "", ended |-> FALSE]
NoCredentials == [host |-> "", ssl |-> ""]
NoOptions == [delayClosingIdleConnection |-> 0, outputLargeFormatNumberAs |-> ""]
NoDbError == [code |-> "", message |-> ""]
NoHandle == [credentials |-> NoCredentials, options |-> NoOptions, pool |-> NoPool]
NoResult == [status |-> "", message |-> "", error |-> NoDbError]

TransportIdle ==
    /\ connectionPool = NoPool /\ handle = NoHandle /\ tpc = "idle"
    /\ credential = [data |-> FALSE, credentials |-> NoCredentials]
    /\ attempts = 0 /\ testResult = NoResult /\ calls = 0

BuildIdle ==
    /\ bpc = "idle" /\ bop = "select" /\ bschema = RunSchema /\ btable = RunTable
    /\ bP = DefaultP /\ bO = DefaultO /\ bT = <<>> /\ bres = NoBuild

RunIdle ==
    /\ op = "select" /\ queryMode = "" /\ options = DefaultO /\ params = <<DefaultP>>
    /\ tableSchema = <<>> /\ pc = "idle" /\ i = 1 /\ queries = <<>> /\ results = <<>>
    /\ returnData = <<>> /\ issued = <<>> /\ inflight = {} /\ txOpen = 0 /\ txCount = 0
    /\ applied = {} /\ committed = {} /\ pending = NoPending /\ outcome = "running"
    /\ error = NoError /\ warnings = <<>>

Init ==
    /\ op \in Ops
    /\ queryMode \in (IF Legacy(op) THEN {""} ELSE QueryModes)
    /\ options \in RunOptions(op)
    /\ params \in UNION {[1..k -> RunInputs(op)] : k \in 1..MaxItems}
    /\ tableSchema = <<>>
    /\ pc = IF op \in {"insert", "update"} THEN "schema" ELSE "build"
    /\ i = 1 /\ queries = <<>> /\ results = <<>> /\ returnData = <<>>
    /\ issued = <<>> /\ inflight = {} /\ txOpen = 0 /\ txCount = 0
    /\ applied = {} /\ committed = {} /\ pending = NoPending
    /\ outcome = "running" /\ error = NoError /\ warnings = <<>>
    /\ BuildIdle
    /\ TransportIdle

\* ------------------------------------------------------------------------
\* The entry points: build phase
\* ------------------------------------------------------------------------
Stmt(b) == [query |-> b.query, values |-> b.values]

Raise(e) ==
    /\ error' = e
    /\ outcome' = "error"
    /\ pc' = "done"

\* insert.operation.ts:126, delete.operation.ts:338: await getTableSchema(...)
FetchSchema ==
    /\ pc = "schema"
    /\ tableSchema' \in TableSchemas
    /\ pc' = "build"
    /\ UNCHANGED <<op, queryMode, options, params, i, queries, results, returnData,
                   issued, inflight, txOpen, txCount, applied, committed, pending,
                   outcome, error, warnings, buildVars, transportVars>>

FetchSchemaFail ==
    /\ pc = "schema"
    /\ Raise([kind |-> "schema", stmt |-> 0, itemIndex |-> -1, prefix |-> "",
              msg |-> "database"])
    /\ UNCHANGED <<op, queryMode, options, params, tableSchema, i, queries, results,
                   returnData, issued, inflight, txOpen, txCount, applied, committed,
                   pending, warnings, buildVars, transportVars>>

BuildError(o, k, e, wrapped) ==
    [kind |-> "build", stmt |-> k, itemIndex |-> IF wrapped THEN -1 ELSE e.itemIndex,
     prefix |-> IF wrapped THEN Prefix(o) ELSE "", msg |-> e.msg]

\* variant of BuildQueries in which each record's statement is executed as soon
\* as it is built, so that the records before a failing one have been issued
BuildQueries_Interleaved ==
    /\ pc = "build" /\ op \in ModeOps
    /\ LET built == [k \in 1..N |->
                       BuildOf(op, RunSchema, RunTable, params[1], params[k], options,
                               tableSchema, k - 1)]
           bad == {k \in 1..N : ~built[k].ok}
       IN IF bad = {}
          THEN /\ queries' = [k \in 1..N |-> Stmt(built[k])]
               /\ issued' = [k \in 1..N |-> 0]
               /\ pc' = "exec"
               /\ UNCHANGED <<outcome, error>>
          ELSE LET k == CHOOSE x \in bad : \A y \in bad : x <= y
               IN /\ Raise(BuildError(op, k, built[k].err, FALSE))
                  /\ queries' = [j \in 1..(k - 1) |-> Stmt(built[j])]
                  /\ issued' = [j \in 1..(k - 1) |-> 1]
    /\ UNCHANGED <<op, queryMode, options, params, tableSchema, i, results, returnData,
                   inflight, txOpen, txCount, applied, committed, pending, warnings,
                   buildVars, transportVars>>

\* the build loops of the second variants: every record's statement is built
\* before the execution loop starts; the first failing record throws
BuildQueries ==
    /\ pc = "build" /\ op \in ModeOps
    /\ LET built == [k \in 1..N |->
                       BuildOf(op, RunSchema, RunTable, params[1], params[k], options,
                               tableSchema, k - 1)]
           bad == {k \in 1..N : ~built[k].ok}
       IN IF bad = {}
          THEN /\ queries' = [k \in 1..N |-> Stmt(built[k])]
               /\ issued' = [k \in 1..N |-> 0]
               /\ pc' = "exec"
               /\ UNCHANGED <<outcome, error>>
          ELSE LET k == CHOOSE x \in bad : \A y \in bad : x <= y
               IN /\ Raise(BuildError(op, k, built[k].err, FALSE))
                  /\ UNCHANGED <<queries, issued>>
    /\ UNCHANGED <<op, queryMode, options, params, tableSchema, i, results, returnData,
                   inflight, txOpen, txCount, applied, committed, pending, warnings,
                   buildVars, transportVars>>

\* select.operation.ts:48-67, delete.operation.ts:45-62: one statement, built
\* from the parameters of item 0, inside the try block
BuildLegacy ==
    /\ pc = "build" /\ op \in {"selectV1", "deleteV1"}
    /\ LET b == BuildOf(op, RunSchema, RunTable, params[1], params[1], options,
                        tableSchema, 0)
       IN IF b.ok
          THEN /\ queries' = <<Stmt(b)>>
               /\ issued' = <<0>>
               /\ pc' = "exec"
               /\ UNCHANGED <<outcome, error>>
          ELSE /\ Raise(BuildError(op, 1, b.err, TRUE))
               /\ UNCHANGED <<queries, issued>>
    /\ UNCHANGED <<op, queryMode, options, params, tableSchema, i, results, returnData,
                   inflight, txOpen, txCount, applied, committed, pending, warnings,
                   buildVars, transportVars>>

\* delete.operation.ts:224-237: the statement of item i, built inside the loop
\* that also executes it
BuildLegacyUpdate ==
    /\ pc = "build" /\ op = "updateV1" /\ i <= N
    /\ LET b == BuildOf(op, RunSchema, RunTable, params[1], params[i], options,
                        tableSchema, i - 1)
       IN IF b.ok
          THEN /\ queries' = Append(queries, Stmt(b))
               /\ issued' = Append(issued, 0)
               /\ pc' = "exec"
               /\ UNCHANGED <<outcome, error>>
          ELSE /\ Raise(BuildError(op, i, b.err, TRUE))
               /\ UNCHANGED <<queries, issued>>
    /\ UNCHANGED <<op, queryMode, options, params, tableSchema, i, results, returnData,
                   inflight, txOpen, txCount, applied, committed, pending, warnings,
                   buildVars, transportVars>>

\* ------------------------------------------------------------------------
\* The entry points: execution loop
\* ------------------------------------------------------------------------
Mode == IF Legacy(op) THEN "single" ELSE ExecutionMode(queryMode)

\* const continueOnFail = ... of the execution loops
ContinueOnFail(o, executionMode) ==
    IF o \in {"update", "delete"} THEN executionMode = "independently"
    ELSE shouldContinueOnFail(executionMode)

AtLoop == pc = "exec" /\ i <= Len(queries)

Rows(k, count) == [r \in 1..count |-> [stmt |-> k, row |-> r]]

\* variant of Collect that puts the rows in front of returnData
Collect_Prepend(count, failed) ==
    /\ results' = Append(results, [stmt |-> i, failed |-> failed, rows |-> count])
    /\ returnData' = Rows(i, count) \o returnData
    /\ i' = i + 1
    /\ pc' = IF op = "updateV1" THEN "build" ELSE "exec"

\* the end of an iteration whose `result` holds count rows
Collect(count, failed) ==
    /\ results' = Append(results, [stmt |-> i, failed |-> failed, rows |-> count])
    /\ returnData' = returnData \o Rows(i, count)
    /\ i' = i + 1
    /\ pc' = IF op = "updateV1" THEN "build" ELSE "exec"

\* the error that leaves the entry point when statement k failed
ExecError(o, k) ==
    [kind |-> "exec", stmt |-> k, itemIndex |-> IF o = "executeQuery" THEN k - 1 ELSE -1,
     prefix |-> Prefix(o), msg |-> "database"]

\* db.tx(...): BEGIN
TxBegin ==
    /\ AtLoop /\ Mode = "transaction"
    /\ txOpen' = txOpen + 1
    /\ txCount' = txCount + 1
    /\ pc' = "tx"
    /\ UNCHANGED <<op, queryMode, options, params, tableSchema, i, queries, results,
                   returnData, issued, inflight, applied, committed, pending, outcome,
                   error, warnings, buildVars, transportVars>>

\* db.any(query, values) or t.any(query, values): the statement is sent
Issue ==
    /\ \/ AtLoop /\ Mode # "transaction"
       \/ pc = "tx"
    /\ issued' = [issued EXCEPT ![i] = @ + 1]
    /\ inflight' = inflight \cup {i}
    /\ pc' = IF pc = "tx" THEN "txrun" ELSE "run"
    /\ UNCHANGED <<op, queryMode, options, params, tableSchema, i, queries, results,
                   returnData, txOpen, txCount, applied, committed, pending, outcome,
                   error, warnings, buildVars, transportVars>>

\* the statement succeeds outside a transaction: its effect is committed
StmtOk(count) ==
    /\ pc = "run"
    /\ inflight' = inflight \ {i}
    /\ committed' = committed \cup {i}
    /\ Collect(count, FALSE)
    /\ UNCHANGED <<op, queryMode, options, params, tableSchema, queries, issued, txOpen,
                   txCount, applied, pending, outcome, error, warnings, buildVars, transportVars>>

\* variant of StmtFail that skips the failing statement without console.warn
StmtFail_Silent ==
    /\ pc = "run"
    /\ inflight' = inflight \ {i}
    /\ IF Mode = "independently" /\ ContinueOnFail(op, Mode)
       THEN /\ Collect(0, TRUE)
            /\ UNCHANGED <<outcome, error, warnings>>
       ELSE /\ Raise(ExecError(op, i))
            /\ UNCHANGED <<warnings, results, returnData, i>>
    /\ UNCHANGED <<op, queryMode, options, params, tableSchema, queries, issued, txOpen,
                   txCount, applied, committed, pending, buildVars, transportVars>>

\* the statement fails outside a transaction
StmtFail ==
    /\ pc = "run"
    /\ inflight' = inflight \ {i}
    /\ IF Mode = "independently" /\ ContinueOnFail(op, Mode)
       THEN /\ warnings' = Append(warnings, i)
            /\ Collect(0, TRUE)
            /\ UNCHANGED <<outcome, error>>
       ELSE /\ Raise(ExecError(op, i))
            /\ UNCHANGED <<warnings, results, returnData, i>>
    /\ UNCHANGED <<op, queryMode, options, params, tableSchema, queries, issued, txOpen,
                   txCount, applied, committed, pending, buildVars, transportVars>>

\* the statement succeeds inside the transaction
TxStmtOk(count) ==
    /\ pc = "txrun"
    /\ inflight' = inflight \ {i}
    /\ applied' = applied \cup {i}
    /\ pending' = [ok |-> TRUE, rows |-> count, set |-> TRUE]
    /\ pc' = "txend"
    /\ UNCHANGED <<op, queryMode, options, params, tableSchema, i, queries, results,
                   returnData, issued, txOpen, txCount, committed, outcome, error,
                   warnings, buildVars, transportVars>>

\* the statement fails inside the transaction
TxStmtFail ==
    /\ pc = "txrun"
    /\ inflight' = inflight \ {i}
    /\ pending' = [ok |-> FALSE, rows |-> 0, set |-> TRUE]
    /\ pc' = "txend"
    /\ UNCHANGED <<op, queryMode, options, params, tableSchema, i, queries, results,
                   returnData, issued, txOpen, txCount, applied, committed, outcome,
                   error, warnings, buildVars, transportVars>>

\* db.tx(...): the callback resolved, COMMIT
TxCommit ==
    /\ pc = "txend" /\ pending.ok
    /\ committed' = committed \cup applied
    /\ applied' = {}
    /\ txOpen' = txOpen - 1
    /\ pending' = NoPending
    /\ Collect(pending.rows, FALSE)
    /\ UNCHANGED <<op, queryMode, options, params, tableSchema, queries, issued, inflight,
                   txCount, outcome, error, warnings, buildVars, transportVars>>

\* variant of TxRollback that leaves the transaction open
TxRollback_Leak ==
    /\ pc = "txend" /\ ~pending.ok
    /\ applied' = {}
    /\ pending' = NoPending
    /\ Raise(ExecError(op, i))
    /\ UNCHANGED <<op, queryMode, options, params, tableSchema, i, queries, results,
                   returnData, issued, inflight, txOpen, txCount, committed, warnings,
                   buildVars, transportVars>>

\* db.tx(...): the callback rejected, ROLLBACK, and the rejection propagates
TxRollback ==
    /\ pc = "txend" /\ ~pending.ok
    /\ applied' = {}
    /\ txOpen' = txOpen - 1
    /\ pending' = NoPending
    /\ Raise(ExecError(op, i))
    /\ UNCHANGED <<op, queryMode, options, params, tableSchema, i, queries, results,
                   returnData, issued, inflight, txCount, committed, warnings, buildVars, transportVars>>

\* return returnData
Finish ==
    /\ \/ pc = "exec" /\ i > Len(queries)
       \/ pc = "build" /\ op = "updateV1" /\ i > N
    /\ pc' = "done"
    /\ outcome' = "returned"
    /\ UNCHANGED <<op, queryMode, options, params, tableSchema, i, queries, results,
                   returnData, issued, inflight, txOpen, txCount, applied, committed,
                   pending, error, warnings, buildVars, transportVars>>

Next ==
    \/ FetchSchema
    \/ FetchSchemaFail
    \/ BuildQueries
    \/ BuildLegacy
    \/ BuildLegacyUpdate
    \/ TxBegin
    \/ Issue
    \/ \E count \in ResultSizes : StmtOk(count)
    \/ StmtFail
    \/ \E count \in ResultSizes : TxStmtOk(count)
    \/ TxStmtFail
    \/ TxCommit
    \/ TxRollback
    \/ Finish

Spec == Init /\ [][Next]_vars

\* ------------------------------------------------------------------------
\* One application of a builder to every input
\* ------------------------------------------------------------------------
BuildIndex == 1

BuildInit ==
    /\ RunIdle
    /\ TransportIdle
    /\ bpc = "input"
    /\ bop \in Ops
    /\ \E target \in {<<"public", "events">>, <<"sx", "tx">>} :
          bschema = target[1] /\ btable = target[2]
    /\ bP \in BuildInputs(bop)
    /\ bO \in BuildOptions(bop)
    /\ bT \in (IF bop \in {"insert", "update"} THEN TableSchemas ELSE {<<>>})
    /\ bres = NoBuild

ApplyBuilder ==
    /\ bpc = "input"
    /\ bres' = BuildOf(bop, bschema, btable, bP, bP, bO, bT, BuildIndex)
    /\ bpc' = "built"
    /\ UNCHANGED <<bop, bschema, btable, bP, bO, bT, runVars, transportVars>>

BuildNext == ApplyBuilder

BuildSpec == BuildInit /\ [][BuildNext]_vars

\* ------------------------------------------------------------------------
\* Properties of the batch runner
\* ------------------------------------------------------------------------
Returned == pc = "done" /\ outcome = "returned"
ExecFailed == pc = "done" /\ outcome = "error" /\ error.kind = "exec"
IsTransaction == ~Legacy(op) /\ queryMode = "transaction"
IsIndependent == ~Legacy(op) /\ queryMode = "independently"
IsSingle == Legacy(op) \/ queryMode \in {"", "single"}

\* C1: in Transaction mode, once a run has ended with a failing statement, no
\* effect of any statement of the batch is committed, and the error raised is
\* the failure of the first failing statement (the only statement that failed).
C1_TransactionAllOrNothing ==
    (IsTransaction /\ ExecFailed) =>
        /\ committed = {}
        /\ error.stmt = i
        /\ \A k \in 1..(i - 1) : issued[k] = 1

\* C2: in Independent mode every statement of the batch is issued exactly
\* once, whatever statements fail; a failing statement contributes an empty
\* result; and the run returns instead of raising on a statement failure.
C2_IndependentIssuesEveryStatement ==
    IsIndependent =>
        /\ \A k \in 1..Len(issued) : issued[k] = IF k < i \/ k \in inflight THEN 1 ELSE 0
        /\ \A j \in 1..Len(results) : results[j].failed => results[j].rows = 0
        /\ outcome = "error" => error.kind \in {"build", "schema"}
        /\ Returned => /\ Len(queries) = N
                       /\ Len(results) = N
                       /\ \A k \in 1..N : issued[k] = 1

C2_Witness ==
    /\ IsIndependent /\ Returned /\ N = 3
    /\ results[2].failed /\ ~results[1].failed /\ ~results[3].failed
    /\ issued[3] = 1

\* C3: in Single mode the first failing statement k ends the batch: no later
\* statement is issued, no failure is recorded as a result, and the entry
\* point fails with the error of statement k instead of returning.
C3_SingleFirstFailureFatal ==
    IsSingle =>
        /\ \A j \in 1..Len(results) : ~results[j].failed
        /\ warnings = <<>>
        /\ \A k \in 1..Len(issued) :
              issued[k] = IF k < i \/ k \in inflight \/ (ExecFailed /\ k = i) THEN 1 ELSE 0
        /\ ExecFailed => /\ error.stmt = i
                         /\ issued[i] = 1
                         /\ \A k \in (i + 1)..Len(issued) : issued[k] = 0
                         /\ Len(results) = i - 1
        /\ Returned => Len(results) = Len(queries)

C3_Witness ==
    /\ ~Legacy(op) /\ queryMode = "single" /\ ExecFailed
    /\ N = 3 /\ error.stmt = 2 /\ Len(returnData) = 1 /\ issued[3] = 0

C5_TransactionNeverContinues ==
    /\ \A m \in QueryModes \cup {"batch"} :
          shouldContinueOnFail(m) <=> m = "independently"
    /\ IsTransaction =>
          /\ \A j \in 1..Len(results) : ~results[j].failed
          /\ warnings = <<>>
          /\ (pc = "txend" /\ ~pending.ok) => outcome = "running" /\ i \notin committed
          /\ Returned => committed = 1..N
          /\ outcome = "error" => pc = "done"

C5_Witness ==
    /\ IsTransaction /\ ExecFailed /\ error.stmt = 2
    /\ Len(results) = 1 /\ warnings = <<>>

\* C8: the statements of a batch run strictly one after another: at most one
\* statement is in flight and at most one transaction is open, a statement is
\* issued only when every earlier one has completed, and no transaction is
\* open when the run has ended.
C8_Sequential ==
    /\ Cardinality(inflight) <= 1
    /\ txOpen \in {0, 1}
    /\ inflight \subseteq {i}
    /\ \A k \in 1..Len(issued) :
          issued[k] > 0 => \A j \in 1..(k - 1) : issued[j] > 0 /\ j \notin inflight
    /\ \A k \in 1..Len(issued) : k > i => issued[k] = 0
    /\ txOpen = 1 => pc \in {"tx", "txrun", "txend"}
    /\ pc = "done" => txOpen = 0 /\ inflight = {} /\ applied = {}

C8_Witness ==
    /\ IsTransaction /\ pc = "done" /\ txCount = 3 /\ outcome = "error"

\* ------------------------------------------------------------------------
\* Properties of the built statements
\* ------------------------------------------------------------------------
StructuredOps == Ops \ {"executeQuery"}

\* another choice of the schema, table and column names
OtherName(name) ==
    CASE name = "a" -> "b"
      [] name = "b" -> "a"
      [] name = "public" -> "sx"
      [] name = "sx" -> "public"
      [] name = "events" -> "tx"
      [] name = "tx" -> "events"
      [] OTHER -> name

OtherNames(names) == [j \in 1..Len(names) |-> OtherName(names[j])]
OtherKeys(o) == Obj(OtherNames(o.keys), o.vals)
OtherColumns(rows) == [j \in 1..Len(rows) |-> [rows[j] EXCEPT !.column = OtherName(@)]]

\* the same parameters with every column name replaced
Renamed(P) ==
    [P EXCEPT !.outputColumns = OtherNames(@),
              !.where = OtherColumns(@),
              !.sort = OtherColumns(@),
              !.json = OtherKeys(@),
              !.columnsValue = OtherKeys(@),
              !.matchingColumns = OtherNames(@),
              !.valuesToSend = [@ EXCEPT !.values = OtherColumns(@)],
              !.valuesToUpdate = [@ EXCEPT !.values = OtherColumns(@)],
              !.dataToSend = [@ EXCEPT !.fields = OtherKeys(@)]]

RenamedSchema(columnsInfo) ==
    [j \in 1..Len(columnsInfo) |->
        [columnsInfo[j] EXCEPT !.column_name = OtherName(@)]]

\* C6: the text of a built statement does not depend on the schema, table and
\* column names: the same input with other names yields the same text.
C6_TextIndependentOfNames ==
    (bpc = "built" /\ bop \in StructuredOps /\ bres.ok) =>
        LET other == BuildOf(bop, OtherName(bschema), OtherName(btable), Renamed(bP),
                             Renamed(bP), bO, RenamedSchema(bT), BuildIndex)
        IN other.ok /\ other.query = bres.query

Placeholders(query) == {j \in 1..Len(query) : query[j].k \in {"name", "csv", "val"}}

\* C7: the placeholder indices of a built statement are exactly
\* 1..Len(values); an identifier placeholder refers to an identifier
\* parameter and a value placeholder to a value parameter; no parameter is
\* unreferenced or referenced as both kinds.
C7_PlaceholdersMatchParams ==
    (bpc = "built" /\ bop \in StructuredOps /\ bres.ok) =>
        LET query == bres.query
            values == bres.values
            used == Placeholders(query)
        IN /\ {query[j].n : j \in used} = 1..Len(values)
           /\ \A j \in used :
                 /\ query[j].n \in 1..Len(values)
                 /\ query[j].k = "name" => values[query[j].n].k \in {"id", "idlist"}
                 /\ query[j].k \in {"val", "csv"} => values[query[j].n].k = "val"
           /\ \A j, h \in used :
                 query[j].n = query[h].n =>
                     (query[j].k = "name") = (query[h].k = "name")

\* C9: an entry point called with N records whose build succeeds issues
\* exactly N statements, statement k built from the inputs of record k, and
\* returns their row sets in record order.
C9_OneStatementPerRecord ==
    Returned =>
        /\ Len(queries) = N
        /\ \A k \in 1..Len(queries) :
              /\ issued[k] = 1
              /\ k <= N =>
                    queries[k] = Stmt(BuildOf(op, RunSchema, RunTable, params[k], params[k],
                                              options, tableSchema, k - 1))
        /\ returnData = Concat([j \in 1..Len(results) |-> Rows(j, results[j].rows)])

\* record k asks to delete rows and its filter list yields no condition
NoCondition(k) ==
    \/ /\ op = "delete"
       /\ params[k].deleteCommand = "delete"
       /\ params[k].where = <<>>
    \/ /\ op = "deleteV1"
       /\ k = 1
       /\ buildWhereClause([values |-> params[1].where,
                            combineConditions |-> params[1].combine]).clause = <<>>

IsDeleteRows(stmt) == stmt.query # <<>> /\ stmt.query[1] = Lit("DELETE FROM")
HasWhere(stmt) == Includes(stmt.query, Lit("WHERE"))

\* C10: a delete-rows request without any WHERE condition fails, before any
\* statement is executed, with an error tagged with the record's index, and
\* no DELETE statement without a WHERE clause is ever issued.
C10_DeleteNeedsWhere ==
    /\ \A k \in 1..Len(queries) :
          (IsDeleteRows(queries[k]) /\ issued[k] > 0) => HasWhere(queries[k])
    /\ \A k \in 1..N :
          (pc # "build" /\ NoCondition(k) /\ \A j \in 1..(k - 1) : ~NoCondition(j)) =>
              /\ outcome = "error"
              /\ error.kind = "build"
              /\ error.stmt = k => error.itemIndex = k - 1
              /\ \A j \in 1..Len(issued) : issued[j] = 0

\* ------------------------------------------------------------------------
\* One application of a helper function to every input
\* ------------------------------------------------------------------------
MaxIndex == 1

HelperOps ==
    {"addReturning", "checkItemAgainstSchema", "buildSortClause", "buildWhereClause",
     "update", "executeQuery", "convertArraysToPostgresFormat",
     "replaceEmptyStringsByNulls"}

\* json objects of the input items of replaceEmptyStringsByNulls
SheetRows ==
    {Obj(<<"a", "b">>, <<v, w>>) : v \in {"", "5", NULL}, w \in {"", "5"}} \cup {EmptyObj}

\* rows and schemas handed to the array conversion
ArrayValues ==
    {JsVal("array", "", <<JsVal("number", "1", <<>>), JsVal("string", "x\"y", <<>>),
                           JsVal("boolean", "true", <<>>)>>),
     JsVal("array", "", <<>>),
     JsVal("string", "[1,2]", <<>>), JsVal("string", "5", <<>>),
     JsVal("string", "abc", <<>>), JsVal("number", "5", <<>>),
     JsVal("object", "null", <<>>), JsUndefined}
ArrayRows ==
    {Obj(<<"tags", "b">>, <<v, w>>) : v \in ArrayValues, w \in ArrayValues}
    \cup {Obj(<<"b">>, <<w>>) : w \in ArrayValues}
ArraySchemas ==
    {<<Column("tags", "ARRAY", tn), Column("b", bt, "NO")>> :
        tn \in {"YES", "NO"}, bt \in {"text", "ARRAY"}}

\* queries and replacement lists a returning clause is added to
ReturningQueries ==
    {<<Lit("UPDATE")>> \o TargetOf("public", "events")
        \o <<Lit("SET"), Ph("name", 3), Lit("="), Ph("val", 4)>>,
     <<Lit("DELETE FROM")>> \o TargetOf("public", "events")}
ReturningReplacements ==
    {<<IdP("public"), IdP("events")>>,
     <<IdP("public"), IdP("events"), IdP("a"), ValP("5")>>}

\* items handed to the validator: distinct keys, each value a string, null or
\* undefined
ItemKeys == {"a", "b", "zz"}
ItemValues == {"5", NULL, UNDEF}
ValidatorItems ==
    {EmptyObj}
    \cup {Obj(<<k>>, <<v>>) : k \in ItemKeys, v \in ItemValues}
    \cup {Obj(<<k1, k2>>, <<v1, v2>>) :
            k1 \in ItemKeys, k2 \in ItemKeys \ {"a"}, v1 \in ItemValues, v2 \in ItemValues}
ValidatorSchemas ==
    {<<>>,
     <<Column("a", "integer", "NO"), Column("b", "text", "YES")>>,
     <<Column("a", "integer", "NO"), Column("b", "text", "NO")>>,
     <<Column("b", "text", "YES")>>}

\* a sort rule whose direction is neither ASC nor DESC
OddRules == Rules \cup {Rule("b", "down")}

HelperInputs(o) ==
    CASE o = "addReturning" ->
           {[query |-> q, outputColumns |-> oc, replacements |-> r] :
              q \in ReturningQueries, oc \in OutputColumnLists,
              r \in ReturningReplacements}
      [] o = "checkItemAgainstSchema" ->
           {[item |-> it, columnsInfo |-> ci, index |-> ix] :
              it \in {x \in ValidatorItems : Len(x.keys) < 2 \/ x.keys[1] # x.keys[2]},
              ci \in ValidatorSchemas, ix \in 0..MaxIndex}
      [] o = "buildSortClause" -> {[sort |-> st] : st \in SeqsUpTo(OddRules, MaxSort + 1)}
      [] o = "buildWhereClause" ->
           {[values |-> w, combineConditions |-> cb] :
              w \in SeqsUpTo(Conds, MaxWhere), cb \in {"", "AND", "OR"}}
      [] o = "update" ->
           {[P |-> P, tableSchema |-> ts, index |-> ix] :
              P \in BuildInputs("update"), ts \in TableSchemas, ix \in 0..MaxIndex}
      [] o = "convertArraysToPostgresFormat" ->
           {[data |-> d, schema |-> sc, itemIndex |-> ix] :
              d \in ArrayRows, sc \in ArraySchemas, ix \in 0..MaxIndex}
      [] o = "replaceEmptyStringsByNulls" ->
           {[items |-> [k \in 1..Len(js) |-> [json |-> k]], replace |-> rp, jsons |-> js] :
              js \in SeqsUpTo(SheetRows, MaxItems - 1), rp \in BOOLEAN}
      [] o = "executeQuery" ->
           {[P |-> P, O |-> O, index |-> ix] :
              P \in BuildInputs("executeQuery"), O \in BuildOptions("executeQuery"),
              ix \in 0..MaxIndex}

HelperInit ==
    /\ RunIdle
    /\ TransportIdle
    /\ bpc = "input"
    /\ bop \in HelperOps
    /\ bschema = RunSchema /\ btable = RunTable
    /\ bP \in HelperInputs(bop)
    /\ bO = DefaultO
    /\ bT = <<>>
    /\ bres = NoBuild

Applied(result) ==
    /\ bres' = result
    /\ bpc' = "built"
    /\ UNCHANGED <<bop, bschema, btable, bP, bO, bT, runVars, transportVars>>

ApplyAddReturning ==
    /\ bpc = "input" /\ bop = "addReturning"
    /\ Applied(addReturning(bP.query, bP.outputColumns, bP.replacements))

\* the validator either throws or returns the item it was given
ApplyCheckItem ==
    /\ bpc = "input" /\ bop = "checkItemAgainstSchema"
    /\ LET e == checkItemAgainstSchema(bP.item, bP.columnsInfo, bP.index)
       IN Applied([ok |-> e = NoErr, err |-> e,
                   item |-> IF e = NoErr THEN bP.item ELSE EmptyObj])

ApplyBuildSortClause ==
    /\ bpc = "input" /\ bop = "buildSortClause"
    /\ Applied([clause |-> buildSortClause(bP.sort)])

ApplyBuildWhereClause ==
    /\ bpc = "input" /\ bop = "buildWhereClause"
    /\ Applied(buildWhereClause(bP))

ApplyUpdateBuild ==
    /\ bpc = "input" /\ bop = "update"
    /\ Applied(UpdateBuild(bschema, btable, bP.P, bP.tableSchema, bP.index))

ApplyExecuteQueryBuild ==
    /\ bpc = "input" /\ bop = "executeQuery"
    /\ Applied(ExecuteQueryBuild(bP.P, bP.O, bP.index))

ApplyConvertArrays ==
    /\ bpc = "input" /\ bop = "convertArraysToPostgresFormat"
    /\ Applied(convertArraysToPostgresFormat(bP.data, bP.schema, bP.itemIndex))

ApplyReplaceEmptyStrings ==
    /\ bpc = "input" /\ bop = "replaceEmptyStringsByNulls"
    /\ Applied(replaceEmptyStringsByNulls(bP.items, bP.replace, bP.jsons))

HelperNext ==
    \/ ApplyAddReturning
    \/ ApplyCheckItem
    \/ ApplyBuildSortClause
    \/ ApplyBuildWhereClause
    \/ ApplyUpdateBuild
    \/ ApplyExecuteQueryBuild
    \/ ApplyConvertArrays
    \/ ApplyReplaceEmptyStrings

HelperSpec == HelperInit /\ [][HelperNext]_vars

\* ------------------------------------------------------------------------
\* transport/index.ts: the connection cache and the credential test
\* ------------------------------------------------------------------------
MaxCalls == 2

Hosts == {"ep-a.neon.tech", "ep-b.neon.tech"}
NeonCredentials == {[host |-> h, ssl |-> m] : h \in Hosts, m \in {"require", "allow"}}
NeonOptions ==
    {[delayClosingIdleConnection |-> d, outputLargeFormatNumberAs |-> f] :
        d \in {0, 5}, f \in {"", "number"}}

\* the errors a connection attempt may end with
ErrorCodes ==
    {"ECONNREFUSED", "ENOTFOUND", "ETIMEDOUT", "28P01", "3D000", "08001", "08006",
     "EAI_AGAIN", "57P03", ""}
ErrorMessages == {"the database system is starting up", "Connection failed: no route", ""}
DbErrors == {[code |-> c, message |-> m] : c \in ErrorCodes, m \in ErrorMessages}

\* variant of getConnectionErrorMessage that hands every message through
getConnectionErrorMessage_Raw(dbError) == dbError.message

getConnectionErrorMessage(dbError) ==
    LET errorMessage == IF dbError.message = "" THEN "Unknown error occurred"
                        ELSE dbError.message
    IN CASE dbError.code = "ECONNREFUSED" ->
              "Connection refused. Please check your host and port settings."
         [] dbError.code = "ENOTFOUND" -> "Host not found. Please check your host address."
         [] dbError.code = "ETIMEDOUT" ->
              "Connection timed out. Please check your network connection."
         [] dbError.code = "28P01" ->
              "Authentication failed. Please check your username and password."
         [] dbError.code = "3D000" ->
              "Database does not exist. Please check your database name."
         [] dbError.code = "08001" -> "SSL connection failed. Please check your SSL settings."
         [] dbError.code = "08006" ->
              "Connection terminated. Please check your connection parameters."
         [] dbError.code = "EAI_AGAIN" ->
              "DNS resolution failed. Please check your network connection and host address."
         [] OTHER -> IF errorMessage = "Connection failed: no route" THEN "no route"
                     ELSE errorMessage

\* the database handle pgp(buildNeonConfig(credentials, nodeOptions)) creates
buildNeonConfig(credentials, nodeOptions) ==
    [set |-> TRUE, host |-> credentials.host, ssl |-> credentials.ssl = "require",
     keepAliveInitialDelayMillis |-> nodeOptions.delayClosingIdleConnection * 1000,
     largeNumbers |-> nodeOptions.outputLargeFormatNumberAs, ended |-> FALSE]

\* the value of connectionPool after the call, which is also what it returns
configureNeon(credentials, nodeOptions) ==
    IF connectionPool.set /\ ~connectionPool.ended THEN connectionPool
    ELSE buildNeonConfig(credentials, nodeOptions)

TransportInit == RunIdle /\ BuildIdle /\ TransportIdle

\* an operation or a list search asks for the database handle
Configure(credentials, nodeOptions) ==
    /\ tpc = "idle" /\ calls < MaxCalls
    /\ connectionPool' = configureNeon(credentials, nodeOptions)
    /\ handle' = [credentials |-> credentials, options |-> nodeOptions,
                  pool |-> connectionPool']
    /\ calls' = calls + 1
    /\ UNCHANGED <<tpc, credential, attempts, testResult, runVars, buildVars>>

\* db.$pool.ended becomes true
PoolEnd ==
    /\ connectionPool.set /\ ~connectionPool.ended
    /\ connectionPool' = [connectionPool EXCEPT !.ended = TRUE]
    /\ UNCHANGED <<handle, tpc, credential, attempts, testResult, calls, runVars,
                   buildVars>>

\* neonApiCredentialTest without credential data
TestWithoutData ==
    /\ tpc = "idle" /\ calls < MaxCalls
    /\ credential' = [data |-> FALSE, credentials |-> NoCredentials]
    /\ attempts' = 0
    /\ testResult' = [status |-> "Error", message |-> "Credential data is missing",
                      error |-> NoDbError]
    /\ tpc' = "done"
    /\ calls' = calls + 1
    /\ UNCHANGED <<connectionPool, handle, runVars, buildVars>>

\* neonApiCredentialTest up to the test query of validateNeonCredentials
TestQuery(credentials) ==
    /\ tpc = "idle" /\ calls < MaxCalls
    /\ credential' = [data |-> TRUE, credentials |-> credentials]
    /\ connectionPool' = configureNeon(credentials, NoOptions)
    /\ handle' = [credentials |-> credentials, options |-> NoOptions,
                  pool |-> connectionPool']
    /\ attempts' = 1
    /\ testResult' = NoResult
    /\ tpc' = "query"
    /\ calls' = calls + 1
    /\ UNCHANGED <<runVars, buildVars>>

\* db.one resolves
TestQueryOk ==
    /\ tpc = "query"
    /\ testResult' = [status |-> "OK", message |-> "Connection successful!",
                      error |-> NoDbError]
    /\ tpc' = "done"
    /\ UNCHANGED <<connectionPool, handle, credential, attempts, calls, runVars, buildVars>>

\* db.one rejects
TestQueryFail(dbError) ==
    /\ tpc = "query"
    /\ testResult' = [status |-> "Error", message |-> getConnectionErrorMessage(dbError),
                      error |-> dbError]
    /\ tpc' = "done"
    /\ UNCHANGED <<connectionPool, handle, credential, attempts, calls, runVars, buildVars>>

\* the result has been shown; the next call may start
TestReturn ==
    /\ tpc = "done"
    /\ tpc' = "idle"
    /\ UNCHANGED <<connectionPool, handle, credential, attempts, testResult, calls,
                   runVars, buildVars>>

TransportNext ==
    \/ \E credentials \in NeonCredentials, nodeOptions \in NeonOptions :
          Configure(credentials, nodeOptions)
    \/ PoolEnd
    \/ TestWithoutData
    \/ \E credentials \in NeonCredentials : TestQuery(credentials)
    \/ TestQueryOk
    \/ \E dbError \in DbErrors : TestQueryFail(dbError)
    \/ TestReturn

TransportSpec == TransportInit /\ [][TransportNext]_vars

\* ------------------------------------------------------------------------
\* Properties of the clauses
\* ------------------------------------------------------------------------
\* the operations whose statement takes the filter list of the record
FilterApplies ==
    \/ bop \in {"select", "selectV1", "deleteV1", "updateV1"}
    \/ bop = "delete" /\ bP.deleteCommand = "delete"

\* the 1-based position of the first condition with a numeric operator and a
\* value that is not a number, 0 when there is none
FirstBadNumber(clauses) ==
    IF \E j \in 1..Len(clauses) : BadNumber(clauses[j])
    THEN CHOOSE j \in 1..Len(clauses) :
             /\ BadNumber(clauses[j])
             /\ \A x \in 1..(j - 1) : ~BadNumber(clauses[x])
    ELSE 0

\* C11: a condition with a numeric operator whose value is not a number makes
\* the build fail, before a statement exists, with a validation error that
\* names the 1-based position of the condition and the index of the item.
C11_NumericFilterValidated ==
    (bpc = "built" /\ FilterApplies /\ FirstBadNumber(bP.where) > 0) =>
        /\ ~bres.ok
        /\ bres.query = <<>>
        /\ bres.err.kind = "validation"
        /\ bres.err.entry = FirstBadNumber(bP.where)
        /\ bres.err.itemIndex = BuildIndex

\* the combinator tokens of a WHERE clause
Combinators(clause) == {j \in 1..Len(clause) : clause[j].s \in {"AND", "OR"}}

NullChecks(clauses) == {j \in 1..Len(clauses) : clauses[j].condition \in NullOps}

\* C12: for a filter list of count >= 1 conditions the WHERE clause comes with
\* 2*count minus the number of null checks identifier and value parameters,
\* and holds count-1 combinators, each the configured one, none at the end.
C12_FilterCounts ==
    (bpc = "built" /\ bop = "buildWhereClause" /\ Len(bP.values) >= 1) =>
        LET count == Len(bP.values)
            configured == IF bP.combineConditions = "OR" THEN "OR" ELSE "AND"
        IN /\ Len(bres.values) = 2 * count - Cardinality(NullChecks(bP.values))
           /\ Cardinality(Combinators(bres.clause)) = count - 1
           /\ \A j \in Combinators(bres.clause) : bres.clause[j].s = configured
           /\ Len(bres.clause) \notin Combinators(bres.clause)

\* the entries of an ORDER BY clause, in the order of the text
OrderEntries(clause) ==
    [k \in 1..(Len(clause) \div 3) |->
        [column |-> clause[3 * k - 1].s, direction |-> clause[3 * k].s]]

\* C13: the ORDER BY clause lists the rules (each naming a column) in the
\* input order, and a rule whose direction is neither ASC nor DESC is emitted
\* with ASC.
C13_SortOrderAndDefault ==
    (bpc = "built" /\ bop = "buildSortClause"
       /\ \A j \in 1..Len(bP.sort) : bP.sort[j].column # "") =>
        LET entries == OrderEntries(bres.clause)
        IN /\ Len(entries) = Len(bP.sort)
           /\ \A j \in 1..Len(entries) :
                 /\ entries[j].column = bP.sort[j].column
                 /\ entries[j].direction =
                        IF bP.sort[j].direction \in {"ASC", "DESC"}
                        THEN bP.sort[j].direction ELSE "ASC"

\* the identifier-list parameters of a built statement
IdLists(values) == {j \in 1..Len(values) : values[j].k = "idlist"}

SelectsStar(query) == \E j \in 1..Len(query) : query[j].s \in {"*", "SELECT * FROM"}

\* C14: a SELECT whose output columns contain the wildcard has `*` in its text
\* and no identifier-list parameter; a SELECT with an explicit non-empty
\* column list without the wildcard has exactly one identifier-list
\* parameter, holding those columns.
C14_WildcardSelect ==
    (bpc = "built" /\ bop \in {"select", "selectV1"} /\ bres.ok) =>
        /\ Includes(bP.outputColumns, "*") =>
              /\ IdLists(bres.values) = {}
              /\ SelectsStar(bres.query)
        /\ (bP.outputColumns # <<>> /\ ~Includes(bP.outputColumns, "*")) =>
              /\ Cardinality(IdLists(bres.values)) = 1
              /\ \A j \in IdLists(bres.values) : bres.values[j].v = bP.outputColumns

\* ------------------------------------------------------------------------
\* Properties of the INSERT and of the returning clause
\* ------------------------------------------------------------------------
InsertBuilt == bpc = "built" /\ bop = "insert" /\ bres.ok

\* C15: an INSERT built from an empty assignment set is exactly
\* INSERT INTO <id>.<id> DEFAULT VALUES RETURNING * and its parameters are
\* the two identifiers schema and table, with no value parameter.
C15_EmptyInsert ==
    (InsertBuilt /\ InsertItem(bP).keys = <<>>) =>
        /\ bres.query = <<Lit("INSERT INTO")>> \o TargetOf(bschema, btable)
                          \o <<Lit("DEFAULT VALUES RETURNING *")>>
        /\ bres.values = <<IdP(bschema), IdP(btable)>>

\* C16: the text of an INSERT carries ON CONFLICT DO NOTHING exactly when the
\* skip-on-conflict switch is on, whatever the assignment set.
C16_OnConflictIffSwitch ==
    InsertBuilt =>
        (Includes(bres.query, Lit("ON CONFLICT DO NOTHING")) <=> bO.skipOnConflict)

HasReturning(query) ==
    \E j \in 1..Len(query) : query[j].s \in {"RETURNING", "RETURNING *"}

\* the output columns a returning clause was requested for
RequestedColumns == IF bop = "addReturning" THEN bP.outputColumns ELSE bP.P.outputColumns

ReturningBuilt ==
    /\ bpc = "built"
    /\ \/ bop = "addReturning"
       \/ bop = "update" /\ bres.ok

Validated == bpc = "built" /\ bop = "checkItemAgainstSchema"

\* key j of the item names no column of the schema
UnknownKey(j) ==
    \A c \in 1..Len(bP.columnsInfo) : bP.columnsInfo[c].column_name # bP.item.keys[j]

\* key j names a column that is not nullable and holds a value of the set
NotNullHit(j, absent) ==
    /\ bP.item.vals[j] \in absent
    /\ \E c \in 1..Len(bP.columnsInfo) :
          /\ bP.columnsInfo[c].column_name = bP.item.keys[j]
          /\ bP.columnsInfo[c].is_nullable # "YES"

KeysOf == 1..Len(bP.item.keys)
UnknownColumnError == ~bres.ok /\ bres.err.msg = "does not exist in selected table"
NotNullError == ~bres.ok /\ bres.err.msg = "is not nullable"

\* C18 as stated: with a non-empty schema the validation fails with the
\* unknown-column error, tagged with the item index, whenever some key
\* matches no column, and never with that error when every key matches.
C18_UnknownColumnFails ==
    (Validated /\ bP.columnsInfo # <<>>) =>
        /\ (\E j \in KeysOf : UnknownKey(j)) =>
              UnknownColumnError /\ bres.err.itemIndex = bP.index
        /\ (\A j \in KeysOf : ~UnknownKey(j)) => ~UnknownColumnError

\* C18 amended: with a non-empty schema an item with an unknown key always
\* fails, tagged with the item index; the error is the unknown-column error of
\* the first unknown key unless an earlier key holds null for a column that
\* is not nullable, and then it is the not-null error of that key; the
\* unknown-column error is never raised when every key matches.
C18_UnknownColumnOrEarlierNull ==
    (Validated /\ bP.columnsInfo # <<>>) =>
        /\ (\E j \in KeysOf : UnknownKey(j)) =>
              LET u == CHOOSE j \in KeysOf :
                           UnknownKey(j) /\ \A x \in 1..(j - 1) : ~UnknownKey(x)
                  earlier == {j \in 1..(u - 1) : NotNullHit(j, {NULL})}
              IN /\ ~bres.ok
                 /\ bres.err.kind = "validation"
                 /\ bres.err.itemIndex = bP.index
                 /\ IF earlier = {}
                    THEN UnknownColumnError /\ bres.err.entry = u
                    ELSE NotNullError /\ bres.err.entry \in earlier
                           /\ \A j \in earlier : bres.err.entry <= j
        /\ (\A j \in KeysOf : ~UnknownKey(j)) => ~UnknownColumnError

C18_Witness ==
    /\ Validated /\ bP.columnsInfo # <<>>
    /\ bP.item.keys = <<"a", "zz">> /\ bP.item.vals = <<"5", "5">>
    /\ bP.index = 1
    /\ UnknownColumnError /\ bres.err.entry = 2 /\ bres.err.itemIndex = 1


\* C19: with a non-empty schema whose columns all match the item's keys, the
\* validation fails with the not-null error, tagged with the item index,
\* whenever some key holds null or undefined for a column that is not
\* nullable.
C19_NotNullFails ==
    (/\ Validated /\ bP.columnsInfo # <<>>
     /\ \A j \in KeysOf : ~UnknownKey(j)
     /\ \E j \in KeysOf : NotNullHit(j, {NULL, UNDEF})) =>
        NotNullError /\ bres.err.itemIndex = bP.index

\* C20: an empty schema lets every item through unchanged, and whenever the
\* validation succeeds the item returned is the item given.
C20_EmptySchemaPassThrough ==
    Validated =>
        /\ bP.columnsInfo = <<>> => bres.ok
        /\ bres.ok => bres.item = bP.item /\ bres.err = NoErr

C20_Witness ==
    /\ Validated /\ bP.columnsInfo = <<>>
    /\ bP.item.keys = <<"a", "zz">> /\ bP.item.vals = <<NULL, "5">>
    /\ bres.ok /\ bres.item = bP.item


\* ------------------------------------------------------------------------
\* Properties of the reported failures
\* ------------------------------------------------------------------------
\* C21: every failure that leaves an entry point carries the operation name
\* and the 0-based index of the record that triggered it; stated for the
\* failures of the execution loop, where the record is the one whose statement
\* the database rejected.
C21_FailureNamesOperationAndIndex ==
    (outcome = "error" /\ error.kind = "exec") =>
        /\ error.prefix # ""
        /\ error.itemIndex = error.stmt - 1


\* ------------------------------------------------------------------------
\* Properties of the free-form statement
\* ------------------------------------------------------------------------
\* C22: the quoted-placeholder rule is applied exactly when no parameter source
\* was supplied (absent or empty): the statement is then built without error,
\* no quoted placeholder is left in its text and each one has added one
\* trailing parameter; with a non-empty source the text is the resolved query
\* and the parameters are the values of the source alone.
C22_QuotedPlaceholderRule ==
    (bpc = "built" /\ bop = "executeQuery") =>
        LET source == bO.queryParameters
            resolved == [j \in 1..Len(bP.query) |->
                           IF bP.query[j].k = "expr"
                           THEN Raw(bP.query[j].s) ELSE bP.query[j]]
            quoted == {j \in 1..Len(bP.query) : bP.query[j].k = "qlit"}
        IN IF source.type = "undefined" \/ source.pieces = <<>>
           THEN /\ bres.ok
                /\ Len(bres.query) = Len(bP.query)
                /\ \A j \in 1..Len(bres.query) :
                      IF j \in quoted THEN bres.query[j].k = "val"
                      ELSE bres.query[j] = resolved[j]
                /\ Len(bres.values) = Cardinality(quoted)
           ELSE /\ bres.ok
                /\ bres.query = resolved
                /\ source.resolvables = <<>> =>
                      Len(bres.values) = Len(SelectSeq(source.pieces, LAMBDA e : e # ""))


ResolverBuilt == bpc = "built" /\ bop = "executeQuery" /\ bP.O.queryParameters.pieces # <<>>

\* the texts of the values the statement was built with
ValueTexts == [j \in 1..Len(bres.values) |-> bres.values[j].v[1]]

\* C23 as stated: without expression markers the values are the
\* comma-separated pieces of the raw text, each trimmed, in order; with markers
\* they are the concatenation over the markers of the evaluated result as one
\* value when it parses as JSON, and of its trimmed comma-separated pieces
\* otherwise.
C23_ResolvedValueList ==
    ResolverBuilt =>
        LET source == bP.O.queryParameters
            trimmed(pieces) == [j \in 1..Len(pieces) |-> Trim(pieces[j])]
            of(e) == IF e.type = "string" /\ CommaText(e.pieces) \in JSONTexts
                     THEN <<CommaText(e.pieces)>> ELSE trimmed(e.pieces)
        IN /\ bres.ok
           /\ ValueTexts =
                 IF source.resolvables = <<>> THEN trimmed(source.pieces)
                 ELSE Concat([j \in 1..Len(source.resolvables) |->
                                 of(source.resolvables[j])])

\* C23 amended: the pieces are those of the raw text without its leading
\* equals signs, the empty pieces are dropped before the others are trimmed,
\* and a marker that evaluates to undefined contributes nothing.
C23_ResolvedNonEmptyPieces ==
    ResolverBuilt =>
        LET source == bP.O.queryParameters
            nonEmpty(pieces) == SelectSeq(pieces, LAMBDA e : e # "")
            trimmed(pieces) == [j \in 1..Len(pieces) |-> Trim(pieces[j])]
            first == source.pieces[1]
            raw == [source.pieces EXCEPT ![1] =
                       IF first = "=5" THEN "5" ELSE first]
            of(e) == IF e.type = "undefined" THEN <<>>
                     ELSE IF e.type = "string" /\ CommaText(e.pieces) \in JSONTexts
                     THEN <<CommaText(e.pieces)>>
                     ELSE trimmed(nonEmpty(e.pieces))
        IN /\ bres.ok
           /\ ValueTexts =
                 IF source.resolvables = <<>> THEN trimmed(nonEmpty(raw))
                 ELSE Concat([j \in 1..Len(source.resolvables) |->
                                 of(source.resolvables[j])])

C23_Witness ==
    /\ ResolverBuilt
    /\ Len(bP.O.queryParameters.resolvables) = 2
    /\ ValueTexts = <<"abc", "7", "5">>


\* ------------------------------------------------------------------------
\* Properties of the warnings
\* ------------------------------------------------------------------------
\* C24: in Independent mode a statement that was answered with a failure has
\* exactly one warning, logged with the failure and so before any later
\* statement is issued; a statement that succeeded, is still in flight or was
\* not issued has none, and the warnings are in statement order.
C24_OneWarningPerSkippedStatement ==
    Mode = "independently" =>
        LET logged(k) == Cardinality({w \in 1..Len(warnings) : warnings[w] = k})
            failed(k) == issued[k] > 0 /\ k \notin inflight /\ k \notin committed
        IN /\ \A k \in 1..Len(issued) : logged(k) = IF failed(k) THEN 1 ELSE 0
           /\ \A w \in 1..Len(warnings) : warnings[w] \in 1..Len(issued)
           /\ \A v, w \in 1..Len(warnings) : v < w => warnings[v] < warnings[w]
           /\ \A k \in 1..Len(issued) : \A l \in 1..Len(issued) :
                 (failed(k) /\ k < l /\ issued[l] > 0) => logged(k) = 1

C24_Witness ==
    /\ Mode = "independently"
    /\ warnings = <<1>>
    /\ Len(issued) >= 2 /\ issued[2] = 1 /\ 2 \in inflight
    /\ 1 \notin committed


\* ------------------------------------------------------------------------
\* Properties of the array conversion
\* ------------------------------------------------------------------------
\* C25: for every array-typed column whose value is not an array (nor a
\* string that parses to one) the conversion fails with an error tagged with
\* the item index when the column is not nullable and leaves the value as it
\* is when the column is nullable; an array value, or a string that parses to
\* one, becomes a brace-delimited literal; the values of the other columns are
\* never changed.
C25_ArrayConversion ==
    (bpc = "built" /\ bop = "convertArraysToPostgresFormat") =>
        LET data == bP.data
            schema == bP.schema
            value(d, name) == IF \E j \in 1..Len(d.keys) : d.keys[j] = name
                              THEN d.vals[CHOOSE j \in 1..Len(d.keys) : d.keys[j] = name]
                              ELSE JsUndefined
            arrayColumn(c) == schema[c].data_type = "ARRAY"
            isArray(v) == v.t = "array" \/ (v.t = "string" /\ v.s \in {"[1,2]", "[]"})
            bad == {c \in 1..Len(schema) :
                       /\ arrayColumn(c) /\ schema[c].is_nullable = "NO"
                       /\ ~isArray(value(data, schema[c].column_name))}
        IN IF bad # {}
           THEN ~bres.ok /\ bres.err.itemIndex = bP.itemIndex
           ELSE /\ bres.ok
                /\ \A c \in 1..Len(schema) :
                      LET before == value(data, schema[c].column_name)
                          after == value(bres.data, schema[c].column_name)
                      IN IF arrayColumn(c) /\ isArray(before)
                         THEN after.t = "string" /\ after # before
                         ELSE after = before


\* ------------------------------------------------------------------------
\* Properties of the transport
\* ------------------------------------------------------------------------
\* the message the classification gives for an error code, "" for a code it
\* does not list
Classified(code) ==
    CASE code = "ECONNREFUSED" ->
           "Connection refused. Please check your host and port settings."
      [] code = "ENOTFOUND" -> "Host not found. Please check your host address."
      [] code = "ETIMEDOUT" -> "Connection timed out. Please check your network connection."
      [] code = "28P01" -> "Authentication failed. Please check your username and password."
      [] code = "3D000" -> "Database does not exist. Please check your database name."
      [] code = "08001" -> "SSL connection failed. Please check your SSL settings."
      [] code = "08006" -> "Connection terminated. Please check your connection parameters."
      [] code = "EAI_AGAIN" ->
           "DNS resolution failed. Please check your network connection and host address."
      [] OTHER -> ""

TestFailed == tpc = "done" /\ credential.data /\ testResult.status = "Error"

\* C26 as stated: a validation of credentials sends exactly one test query and
\* never a second one; a failure is returned as an unsuccessful result whose
\* message is the classification of the error code, or the original message
\* for a code the classification does not list.
C26_OneAttemptClassified ==
    /\ attempts <= 1
    /\ (tpc \in {"query", "done"} /\ credential.data) => attempts = 1
    /\ tpc = "done" => testResult.status \in {"OK", "Error"}
    /\ TestFailed =>
          testResult.message =
              IF Classified(testResult.error.code) # ""
              THEN Classified(testResult.error.code)
              ELSE testResult.error.message

\* C26 amended: for a code the classification does not list the message is
\* the original message without a leading "connection failed:", and
\* "Unknown error occurred" when the error has no message; a credential test
\* without credential data sends no query at all and returns an error.
C26_OneAttemptCleanedMessage ==
    /\ attempts <= 1
    /\ (tpc \in {"query", "done"} /\ credential.data) => attempts = 1
    /\ (tpc = "done" /\ ~credential.data) =>
          attempts = 0 /\ testResult.status = "Error"
    /\ tpc = "done" => testResult.status \in {"OK", "Error"}
    /\ TestFailed =>
          testResult.message =
              IF Classified(testResult.error.code) # ""
              THEN Classified(testResult.error.code)
              ELSE CASE testResult.error.message = "" -> "Unknown error occurred"
                     [] testResult.error.message = "Connection failed: no route" ->
                          "no route"
                     [] OTHER -> testResult.error.message

C26_Witness ==
    /\ TestFailed /\ attempts = 1
    /\ testResult.error = [code |-> "57P03", message |-> "Connection failed: no route"]
    /\ testResult.message = "no route"

\* C29: the handle a call of configureNeon returns is configured with the
\* credentials and options of that call, and its pool has not ended.
C29_HandleConfiguredForCall ==
    handle # NoHandle =>
        /\ handle.pool.host = handle.credentials.host
        /\ handle.pool.ssl = (handle.credentials.ssl = "require")
        /\ handle.pool.keepAliveInitialDelayMillis =
               handle.options.delayClosingIdleConnection * 1000
        /\ handle.pool.largeNumbers = handle.options.outputLargeFormatNumberAs
        /\ ~handle.pool.ended


\* ------------------------------------------------------------------------
\* Properties of the build phase
\* ------------------------------------------------------------------------
\* C27: when validating or building the statement of a record has failed, no
\* statement of the batch has been issued to the database: none is counted as
\* sent, in flight, applied or committed, no transaction was begun and no row
\* was returned.
C27_BuildPrecedesExecution ==
    (outcome = "error" /\ error.kind = "build") =>
        /\ \A k \in 1..Len(issued) : issued[k] = 0
        /\ inflight = {} /\ applied = {} /\ committed = {}
        /\ txCount = 0
        /\ returnData = <<>> /\ results = <<>>

C27_Witness ==
    /\ outcome = "error" /\ error.kind = "build" /\ error.stmt = 2
    /\ N >= 2 /\ op = "insert"
    /\ issued = <<>>


\* ------------------------------------------------------------------------
\* Properties of the UPDATE statement
\* ------------------------------------------------------------------------
\* C28: in both mapping modes a record with no matching column or no column
\* to update fails with an error tagged with its index, and every UPDATE
\* statement built has a non-empty SET list naming the item's columns that are
\* not matching columns and a non-empty WHERE list naming exactly the matching
\* columns, joined with AND.
C28_UpdateSetAndWhere ==
    (/\ bpc = "built" /\ bop = "update"
     /\ bP.P.mappingMode \in {"autoMapInputData", "defineBelow"}) =>
        LET m == UpdateMapped(bP.P)
            updateColumns == SelectSeq(m.item.keys,
                                       LAMBDA c : ~Includes(m.matchingColumns, c))
            q == bres.query
            set == CHOOSE j \in 1..Len(q) : q[j] = Lit("SET")
            where == CHOOSE j \in 1..Len(q) : q[j] = Lit("WHERE")
            tail == {j \in 1..Len(q) : q[j] \in {Lit("RETURNING"), Lit("RETURNING *")}}
            last == IF tail = {} THEN Len(q) ELSE (CHOOSE j \in tail : TRUE) - 1
            names(from, to) ==
                LET at == SelectSeq([j \in 1..Len(q) |-> j],
                                    LAMBDA j : j >= from /\ j <= to /\ q[j].k = "name")
                IN [x \in 1..Len(at) |-> bres.values[q[at[x]].n].v[1]]
        IN IF m.matchingColumns = <<>> \/ updateColumns = <<>>
           THEN ~bres.ok /\ bres.err.itemIndex = bP.index
           ELSE bres.ok =>
                   /\ names(set + 1, where - 1) = updateColumns
                   /\ names(where + 1, last) = m.matchingColumns
                   /\ updateColumns # <<>> /\ m.matchingColumns # <<>>
                   /\ \A j \in (where + 1)..last :
                         q[j].k = "lit" => q[j] \in {Lit("="), Lit("AND")}


\* ------------------------------------------------------------------------
\* Properties of the replacement of empty strings
\* ------------------------------------------------------------------------
\* C30: with the switch off the items are returned as they are; with the
\* switch on each returned item holds null for every top-level field that was
\* the empty string and the other fields unchanged, and the json objects of
\* the input items still hold what they held before the call.
C30_InputUnchanged ==
    (bpc = "built" /\ bop = "replaceEmptyStringsByNulls") =>
        /\ Len(bres.items) = Len(bP.items)
        /\ ~bP.replace => bres.items = bP.items
        /\ \A k \in 1..Len(bP.items) :
              LET before == bP.jsons[bP.items[k].json]
                  input == bres.jsons[bP.items[k].json]
                  returned == bres.jsons[bres.items[k].json]
              IN /\ input = before
                 /\ returned.keys = before.keys
                 /\ \A j \in 1..Len(before.keys) :
                       returned.vals[j] =
                           IF bP.replace /\ before.vals[j] = "" THEN NULL
                           ELSE before.vals[j]
====
